---- MODULE Spec2Model ----
(***************************************************************************)
(* Model of the Oclean BLE poll/reconciliation engine                      *)
(* (custom_components/oclean_ble/coordinator.py): one coordinator, one     *)
(* device.  A poll cycle is _async_update_data -> _poll_device ->          *)
(* _setup_and_read, with the notification handler interleaving at every    *)
(* await point once a notify channel is subscribed.                        *)
(*                                                                         *)
(* Python dicts are functions from key strings to integers; None is the    *)
(* integer NoneVal, strings (model / hardware / firmware) are small        *)
(* integer codes with 0 standing for the empty string.                     *)
(***************************************************************************)
EXTENDS Integers, Sequences, FiniteSets, TLC

(* ------------------------------ bounds -------------------------------- *)
\* session timestamps the device can report: 1..MaxTs
MaxTs == 2
\* notifications delivered to the handler in one poll cycle
MaxNotifs == 2
\* clock ticks the model lets pass
MaxTicks == 2
\* poll cycles that get a connection, in the specification Spec
MaxCycles == 2
\* poll cycles that get a connection, in the other specifications
MaxShortCycles == 1
\* timestamps of the paging specification (a device pushing one new session per page)
MaxPagingTs == 52
\* presses of the reset button
MaxResets == 1
\* configured poll windows in the specification of the gate's functions
MaxWindows == 2
\* completed loads of the store the bookkeeping tells apart
MaxLoadsSeen == 2

(* ------------------------- program constants -------------------------- *)
MAX_SESSION_PAGES == 50
DIS_REFRESH_INTERVAL == 86400
\* seconds per clock tick of the model (half a day)
TickSeconds == 43200
\* Python's None
NoneVal == -1

K_TIME     == "last_brush_time"
K_DURATION == "last_brush_duration"
K_SCORE    == "last_brush_score"
K_PRESSURE == "last_brush_pressure"
K_AREAS    == "last_brush_areas"
K_PNUM     == "last_brush_pnum"
K_SCHEME   == "last_brush_scheme_type"
K_CLEAN    == "last_brush_clean"
K_USAGE    == "brush_head_usage"
K_BATTERY  == "battery"
K_MODEL    == "model_id"
K_HWREV    == "hw_revision"
K_SWVER    == "sw_version"

PERSISTENT_KEYS ==
    {K_BATTERY, K_USAGE, K_SCORE, K_DURATION, K_PRESSURE, K_TIME, K_AREAS,
     K_PNUM, K_MODEL, K_HWREV, K_SWVER}

ENRICHMENT_KEYS == {K_SCORE, K_AREAS, K_PRESSURE}

DIS_KEYS == <<K_MODEL, K_HWREV, K_SWVER>>

\* the four notify characteristics, in subscription order
NOTIFY_CHARS == <<"READ_NOTIFY", "RECEIVE_BRUSH", "CHANGE_INFO", "SEND_BRUSH_CMD">>

SnapshotFields ==
    {K_BATTERY, K_SCORE, K_DURATION, K_CLEAN, K_PRESSURE, K_TIME, K_USAGE,
     K_AREAS, K_SCHEME, K_PNUM, K_MODEL, K_HWREV, K_SWVER}

(* --------------------------- dict helpers ----------------------------- *)
EmptyDict == [k \in {} |-> 0]

\* d.get(k)
Get(d, k) == IF k \in DOMAIN d THEN d[k] ELSE NoneVal

\* d.get(k, default)
GetD(d, k, default) == IF k \in DOMAIN d THEN d[k] ELSE default

\* Python truthiness of an int / str / None value
Truthy(v) == v # NoneVal /\ v # 0

\* d.update(p): the fields of p overwrite those of d
DictUpdate(d, p) == p @@ d

\* {k: v for k, v in d.items() if k not in ks}
Without(d, ks) == [k \in (DOMAIN d) \ ks |-> d[k]]

SetMax(S) == CHOOSE x \in S : \A y \in S : y <= x
SetMin(S) == CHOOSE x \in S : \A y \in S : x <= y
Max2(a, b) == IF a >= b THEN a ELSE b

SeqRange(s) == {s[i] : i \in 1..Len(s)}

(* ------------------------------ parser.py ----------------------------- *)
\* data[i] of a Python bytes object (0-based) held as a sequence of 0..255
At(data, i) == data[i + 1]

\* data[a:b]
Slice(data, a, b) == SubSeq(data, a + 1, IF b <= Len(data) THEN b ELSE Len(data))

\* variant that reads the byte as unsigned
parse_signed_byte_Unsigned(value) == value

\* _parse_signed_byte
parse_signed_byte(value) == IF value < 128 THEN value ELSE value - 256

IsLeap(y) == (y % 4 = 0 /\ y % 100 # 0) \/ y % 400 = 0

DaysInMonth(y, m) ==
    IF m = 2 THEN (IF IsLeap(y) THEN 29 ELSE 28)
    ELSE IF m \in {4, 6, 9, 11} THEN 30 ELSE 31

\* whether datetime.datetime(year, month, day, hour, minute, second) accepts
\* its arguments (ValueError otherwise)
DatetimeAccepts(year, month, day, hour, minute, second) ==
    /\ year \in 1..9999
    /\ month \in 1..12
    /\ day >= 1 /\ day <= DaysInMonth(year, month)
    /\ hour \in 0..23 /\ minute \in 0..59 /\ second \in 0..59

MIN_YEAR == 2015

\* variant without the plausibility check on the year
device_datetime_AnyYear(year_byte, month, day, hour, minute, second) ==
    LET year == year_byte + 2000
    IN  IF ~DatetimeAccepts(year, month, day, hour, minute, second)
        THEN [raised |-> TRUE, year |-> 0, month |-> 0, day |-> 0, hour |-> 0,
              minute |-> 0, second |-> 0]
        ELSE [raised |-> FALSE, year |-> year, month |-> month, day |-> day,
              hour |-> hour, minute |-> minute, second |-> second]

\* _device_datetime: the datetime as a record, or a ValueError
device_datetime(year_byte, month, day, hour, minute, second) ==
    LET year == year_byte + 2000
    IN  IF year < MIN_YEAR \/ ~DatetimeAccepts(year, month, day, hour, minute, second)
        THEN [raised |-> TRUE, year |-> 0, month |-> 0, day |-> 0, hour |-> 0,
              minute |-> 0, second |-> 0]
        ELSE [raised |-> FALSE, year |-> year, month |-> month, day |-> day,
              hour |-> hour, minute |-> minute, second |-> second]

\* days since 1970-01-01 of a date of the proleptic Gregorian calendar
DaysFromCivil(y, m, d) ==
    LET yy  == IF m <= 2 THEN y - 1 ELSE y
        era == yy \div 400
        yoe == yy - era * 400
        mp  == (m + 9) % 12
        doy == (153 * mp + 2) \div 5 + d - 1
        doe == yoe * 365 + yoe \div 4 - yoe \div 100 + doy
    IN  era * 146097 + doe - 719468

\* calendar.timegm(dt.timetuple())
timegm(dt) ==
    DaysFromCivil(dt.year, dt.month, dt.day) * 86400
        + dt.hour * 3600 + dt.minute * 60 + dt.second

\* _build_utc_timestamp: device_dt - timedelta(minutes=tz_offset_quarters * 15),
\* then calendar.timegm
build_utc_timestamp(device_dt, tz_offset_quarters) ==
    timegm(device_dt) - tz_offset_quarters * 15 * 60

\* time.mktime(dt.timetuple()): the datetime read in the system's time zone,
\* utc_offset seconds east of UTC
mktime(dt, utc_offset) == timegm(dt) - utc_offset

\* int.from_bytes(b, byteorder="big") and byteorder="little" of two bytes
from_bytes_big(b) == b[1] * 256 + b[2]
from_bytes_little(b) == b[1] + b[2] * 256

\* round(x / n) for integers x >= 0, n > 0: Python rounds halves to even
RoundDiv(x, n) ==
    LET q == x \div n
        r == x % n
    IN  IF 2 * r < n THEN q
        ELSE IF 2 * r > n THEN q + 1
        ELSE IF q % 2 = 0 THEN q ELSE q + 1

SeqSum(s) == LET F[i \in 0..Len(s)] == IF i = 0 THEN 0 ELSE F[i - 1] + s[i]
             IN  F[Len(s)]

Clamp100(v) == IF v < 0 THEN 0 ELSE IF v > 100 THEN 100 ELSE v

\* a handler's result: the fragment, and whether an exception left it
Returned(out) == [raised |-> FALSE, out |-> out]
Raised == [raised |-> TRUE, out |-> EmptyDict]

RUNNING_DATA_MIN_RECORD_SIZE == 18

\* _parse_running_data_record (simple layout).  last_brush_pressure is
\* round(raw / 300, 2), held in hundredths.
parse_running_data_record(data) ==
    IF Len(data) < RUNNING_DATA_MIN_RECORD_SIZE THEN EmptyDict
    ELSE LET device_dt == device_datetime(At(data, 0), At(data, 1), At(data, 2),
                                          At(data, 3), At(data, 4), At(data, 5))
             tz_offset_quarters == parse_signed_byte(At(data, 6))
             blunt_teeth  == from_bytes_little(Slice(data, 14, 16))
             pressure_raw == from_bytes_little(Slice(data, 16, 18))
         IN  IF device_dt.raised THEN EmptyDict
             ELSE (K_TIME :> build_utc_timestamp(device_dt, tz_offset_quarters))
                  @@ (K_PRESSURE :> RoundDiv(pressure_raw, 3))
                  @@ (K_USAGE :> blunt_teeth)

EXT_MIN_SIZE == 32

\* _parse_extended_running_data_record.  last_brush_areas is held as the
\* eight area bytes in the order of TOOTH_AREA_NAMES.
parse_extended_running_data_record(data) ==
    IF Len(data) < EXT_MIN_SIZE THEN EmptyDict
    ELSE LET device_dt == device_datetime(At(data, 2), At(data, 3), At(data, 4),
                                          At(data, 5), At(data, 6), At(data, 7))
             tz_offset_quarters == parse_signed_byte(At(data, 19))
             area_pressures == Slice(data, 20, 28)
         IN  IF device_dt.raised THEN EmptyDict
             ELSE (K_TIME :> build_utc_timestamp(device_dt, tz_offset_quarters))
                  @@ (K_DURATION :> from_bytes_big(Slice(data, 9, 11)))
                  @@ (K_SCORE :> Clamp100(At(data, 28)))
                  @@ (K_PRESSURE :> RoundDiv(SeqSum(area_pressures), 8))
                  @@ (K_AREAS :> area_pressures)
                  @@ (K_SCHEME :> At(data, 29))
                  @@ (K_PNUM :> At(data, 8))

\* the test that selects the extended layout
ExtendedHeuristic(payload) ==
    /\ Len(payload) >= 2
    /\ At(payload, 0) = 0
    /\ At(payload, 1) >= 32
    /\ Len(payload) >= At(payload, 1)

\* _parse_info_response (0308)
parse_info_response(payload) ==
    IF ExtendedHeuristic(payload)
    THEN parse_extended_running_data_record(payload)
    ELSE parse_running_data_record(payload)

T1_MIN_SIZE == 11

\* _parse_info_t1_response (0307)
parse_info_t1_response(payload, utc_offset) ==
    IF Len(payload) < T1_MIN_SIZE THEN EmptyDict
    ELSE LET device_dt == device_datetime(At(payload, 5), At(payload, 6),
                                          At(payload, 7), At(payload, 8),
                                          At(payload, 9), At(payload, 10))
         IN  IF device_dt.raised THEN EmptyDict
             ELSE (K_TIME :> mktime(device_dt, utc_offset))
                  @@ (K_PNUM :> At(payload, 0))

\* _parse_state_response (0303)
parse_state_response(payload) ==
    IF Len(payload) >= 4 /\ At(payload, 3) <= 100
    THEN (K_BATTERY :> At(payload, 3))
    ELSE EmptyDict

\* _parse_score_t1_response (0000)
parse_score_t1_response(payload) ==
    IF Len(payload) < 1 \/ At(payload, 0) = 255 THEN EmptyDict
    ELSE (K_SCORE :> Clamp100(At(payload, 0)))

\* _parse_session_meta_t1_response (5a00)
parse_session_meta_t1_response(payload, utc_offset) ==
    IF Len(payload) < 18 THEN EmptyDict
    ELSE LET device_dt == device_datetime(At(payload, 7), At(payload, 8),
                                          At(payload, 9), At(payload, 10),
                                          At(payload, 11), At(payload, 12))
             duration == At(payload, 15)
         IN  IF device_dt.raised THEN EmptyDict
             ELSE IF duration > 0 /\ duration # 255
             THEN (K_TIME :> mktime(device_dt, utc_offset)) @@ (K_DURATION :> duration)
             ELSE (K_TIME :> mktime(device_dt, utc_offset))

\* _parse_brush_areas_t1_response (2604)
parse_brush_areas_t1_response(payload) ==
    IF Len(payload) < 14 THEN EmptyDict
    ELSE (K_AREAS :> Slice(payload, 6, 14))
         @@ (K_PRESSURE :> RoundDiv(SeqSum(Slice(payload, 6, 14)), 8))

\* JSON texts a notification may carry, each with what json.loads makes of
\* its stripped UTF-8 decoding: an object (its members as values of kind t:
\* int, float and bool with their integer part v, numstr a string holding the
\* integer v, str any other string, null, list) or another JSON value
JsonTexts ==
    {
    \* {"score":85}
    [text |-> <<123, 34, 115, 99, 111, 114, 101, 34, 58, 56, 53, 125>>,
     doc |-> [kind |-> "object", obj |-> ("score" :> [t |-> "int", v |-> 85])]],
    \* {"score":"85"}
    [text |-> <<123, 34, 115, 99, 111, 114, 101, 34, 58, 34, 56, 53, 34, 125>>,
     doc |-> [kind |-> "object", obj |-> ("score" :> [t |-> "numstr", v |-> 85])]],
    \* {"score":"x"}
    [text |-> <<123, 34, 115, 99, 111, 114, 101, 34, 58, 34, 120, 34, 125>>,
     doc |-> [kind |-> "object", obj |-> ("score" :> [t |-> "str", v |-> 0])]],
    \* {"score":null}
    [text |-> <<123, 34, 115, 99, 111, 114, 101, 34, 58, 110, 117, 108, 108, 125>>,
     doc |-> [kind |-> "object", obj |-> ("score" :> [t |-> "null", v |-> 0])]],
    \* {"duration":[1]}
    [text |-> <<123, 34, 100, 117, 114, 97, 116, 105, 111, 110, 34, 58, 91, 49, 93, 125>>,
     doc |-> [kind |-> "object", obj |-> ("duration" :> [t |-> "list", v |-> 0])]],
    \* {"pressure":2.5}
    [text |-> <<123, 34, 112, 114, 101, 115, 115, 117, 114, 101, 34, 58, 50, 46, 53, 125>>,
     doc |-> [kind |-> "object", obj |-> ("pressure" :> [t |-> "float", v |-> 2])]],
    \* {"brushScore":70,"time":120,"avgPressure":3,"endTime":5}
    [text |-> <<123, 34, 98, 114, 117, 115, 104, 83, 99, 111, 114, 101, 34, 58, 55, 48, 44, 34, 116, 105, 109, 101, 34, 58, 49, 50, 48, 44, 34, 97, 118, 103, 80, 114, 101, 115, 115, 117, 114, 101, 34, 58, 51, 44, 34, 101, 110, 100, 84, 105, 109, 101, 34, 58, 53, 125>>,
     doc |-> [kind |-> "object", obj |-> ("brushScore" :> [t |-> "int", v |-> 70]) @@ ("time" :> [t |-> "int", v |-> 120]) @@ ("avgPressure" :> [t |-> "int", v |-> 3]) @@ ("endTime" :> [t |-> "int", v |-> 5])]],
    \* {"totalScore":true,"timestamp":null}
    [text |-> <<123, 34, 116, 111, 116, 97, 108, 83, 99, 111, 114, 101, 34, 58, 116, 114, 117, 101, 44, 34, 116, 105, 109, 101, 115, 116, 97, 109, 112, 34, 58, 110, 117, 108, 108, 125>>,
     doc |-> [kind |-> "object", obj |-> ("totalScore" :> [t |-> "bool", v |-> 1]) @@ ("timestamp" :> [t |-> "null", v |-> 0])]],
    \* {"score":90,"duration":"n/a","timestamp":7}
    [text |-> <<123, 34, 115, 99, 111, 114, 101, 34, 58, 57, 48, 44, 34, 100, 117, 114, 97, 116, 105, 111, 110, 34, 58, 34, 110, 47, 97, 34, 44, 34, 116, 105, 109, 101, 115, 116, 97, 109, 112, 34, 58, 55, 125>>,
     doc |-> [kind |-> "object", obj |-> ("score" :> [t |-> "int", v |-> 90]) @@ ("duration" :> [t |-> "str", v |-> 0]) @@ ("timestamp" :> [t |-> "int", v |-> 7])]],
    \* {"foo":1}
    [text |-> <<123, 34, 102, 111, 111, 34, 58, 49, 125>>,
     doc |-> [kind |-> "object", obj |-> ("foo" :> [t |-> "int", v |-> 1])]],
    \* {}
    [text |-> <<123, 125>>,
     doc |-> [kind |-> "object", obj |-> [k \in {} |-> [t |-> "null", v |-> 0]]]],
    \* [1]
    [text |-> <<91, 49, 93>>,
     doc |-> [kind |-> "other", obj |-> [k \in {} |-> [t |-> "null", v |-> 0]]]],
    \* 12
    [text |-> <<49, 50>>,
     doc |-> [kind |-> "other", obj |-> [k \in {} |-> [t |-> "null", v |-> 0]]]],
    \*  {"duration":60} 
    [text |-> <<32, 123, 34, 100, 117, 114, 97, 116, 105, 111, 110, 34, 58, 54, 48, 125, 32>>,
     doc |-> [kind |-> "object", obj |-> ("duration" :> [t |-> "int", v |-> 60])]]
    }

\* data.decode("utf-8").strip() then json.loads: the document, or a
\* UnicodeDecodeError / JSONDecodeError for bytes that are not JSON text
json_loads(data) ==
    IF \E e \in JsonTexts : e.text = data
    THEN (CHOOSE e \in JsonTexts : e.text = data).doc
    ELSE [kind |-> "invalid", obj |-> [k \in {} |-> [t |-> "null", v |-> 0]]]

\* whether int(val) returns (ValueError for a non-numeric string, TypeError
\* for None and for a list otherwise)
IntAccepts(val) == val.t \in {"int", "float", "bool", "numstr"}

\* a JSON value as the fragment holds it when it is not cast
Uncast(val) == IF val.t = "null" THEN NoneVal ELSE val.v

JSON_KEY_MAP ==
    << [result_key |-> K_SCORE, cast_int |-> TRUE,
        candidates |-> <<"score", "brushScore", "brush_score", "totalScore">>],
       [result_key |-> K_DURATION, cast_int |-> TRUE,
        candidates |-> <<"duration", "brushDuration", "brush_duration", "time">>],
       [result_key |-> K_PRESSURE, cast_int |-> TRUE,
        candidates |-> <<"pressure", "avgPressure", "avg_pressure">>],
       [result_key |-> K_TIME, cast_int |-> FALSE,
        candidates |-> <<"timestamp", "endTime", "end_time", "brushTime">>] >>

\* the first candidate key the object has, "" when it has none
FirstPresent(candidates, obj) ==
    LET idx == {i \in 1..Len(candidates) : candidates[i] \in DOMAIN obj}
    IN  IF idx = {} THEN "" ELSE candidates[CHOOSE i \in idx : \A j \in idx : i <= j]

\* _map_json_brush_data: the entries of _JSON_KEY_MAP in order; an int() that
\* raises ends the call
map_json_brush_data(obj) ==
    LET step[i \in 0..Len(JSON_KEY_MAP)] ==
            IF i = 0 THEN Returned(EmptyDict)
            ELSE LET prev == step[i - 1]
                     e    == JSON_KEY_MAP[i]
                     key  == FirstPresent(e.candidates, obj)
                 IN  IF prev.raised \/ key = "" THEN prev
                     ELSE IF e.cast_int /\ ~IntAccepts(obj[key]) THEN Raised
                     ELSE Returned((e.result_key :>
                                       (IF e.cast_int THEN obj[key].v
                                        ELSE Uncast(obj[key]))) @@ prev.out)
    IN  step[Len(JSON_KEY_MAP)]

\* variant that reports the first zone pressure of a guidance notification
parse_k3guide_response_Zone(payload) ==
    IF Len(payload) < 6 THEN EmptyDict ELSE (K_PRESSURE :> At(payload, 0))

\* _parse_k3guide_response (0340): the zones are logged, nothing is returned
parse_k3guide_response(payload) ==
    IF Len(payload) < 6 THEN EmptyDict ELSE EmptyDict

\* _handle_device_info_ack (0202)
handle_device_info_ack(payload) == EmptyDict

\* the response-type prefixes of const.py and of the handlers' descriptions
RESP_STATE           == <<3, 3>>
RESP_INFO            == <<3, 8>>
RESP_INFO_T1         == <<3, 7>>
RESP_DEVICE_INFO     == <<2, 2>>
RESP_K3GUIDE         == <<3, 64>>
RESP_EXTENDED_T1     == <<3, 20>>
RESP_SCORE_T1        == <<0, 0>>
RESP_SESSION_META_T1 == <<90, 0>>
RESP_BRUSH_AREAS_T1  == <<38, 4>>

\* _PARSERS: the registered prefixes
PARSERS ==
    {RESP_STATE, RESP_INFO, RESP_INFO_T1, RESP_DEVICE_INFO, RESP_K3GUIDE,
     RESP_EXTENDED_T1, RESP_SCORE_T1, RESP_SESSION_META_T1, RESP_BRUSH_AREAS_T1}

\* the handler _PARSERS holds for a prefix, applied to the payload;
\* _parse_0314_response only logs
handler(tag, payload, utc_offset) ==
    CASE tag = RESP_STATE           -> parse_state_response(payload)
      [] tag = RESP_INFO            -> parse_info_response(payload)
      [] tag = RESP_INFO_T1         -> parse_info_t1_response(payload, utc_offset)
      [] tag = RESP_DEVICE_INFO     -> handle_device_info_ack(payload)
      [] tag = RESP_K3GUIDE         -> parse_k3guide_response(payload)
      [] tag = RESP_SCORE_T1        -> parse_score_t1_response(payload)
      [] tag = RESP_SESSION_META_T1 -> parse_session_meta_t1_response(payload, utc_offset)
      [] tag = RESP_BRUSH_AREAS_T1  -> parse_brush_areas_t1_response(payload)
      [] OTHER                      -> EmptyDict

\* parse_notification: the fragment, or the exception that leaves it
parse_notification(data, utc_offset) ==
    IF Len(data) < 2 THEN Returned(EmptyDict)
    ELSE IF Slice(data, 0, 2) \in PARSERS
    THEN Returned(handler(Slice(data, 0, 2), Slice(data, 2, Len(data)), utc_offset))
    ELSE LET parsed == json_loads(data)
         IN  IF parsed.kind = "object" THEN map_json_brush_data(parsed.obj)
             ELSE Returned(EmptyDict)

(* ----------------- decoded fragments (parser outputs) ----------------- *)
\* values carried by a fragment are derived from its timestamp, so that a
\* field can be traced to the fragment that delivered it
DurOf(t)   == 30 + t
PressOf(t) == 10 + t
UsageOf(t) == 20 + t

\* 5a00 session-meta push: timestamp, and a duration unless it is 0 / 0xFF
SessionMetaFrags(T) ==
    {[x \in {K_TIME} |-> t] : t \in T} \cup
    {(K_TIME :> t) @@ (K_DURATION :> DurOf(t)) : t \in T}

\* 0308 simple layout: timestamp, pressure, hardware wear counter
InfoSimpleFrags(T) ==
    {(K_TIME :> t) @@ (K_PRESSURE :> PressOf(t)) @@ (K_USAGE :> UsageOf(t)) : t \in T}

\* 0308 extended layout: timestamp, duration, score, average pressure, areas,
\* scheme type and scheme id
ScoreOf(t)  == 60 + t
AreasOf(t)  == 40 + t
SchemeOf(t) == t
PnumOf(t)   == 70 + t

InfoExtendedFrags(T) ==
    {(K_TIME :> t) @@ (K_DURATION :> DurOf(t)) @@ (K_SCORE :> ScoreOf(t))
        @@ (K_PRESSURE :> PressOf(t)) @@ (K_AREAS :> AreasOf(t))
        @@ (K_SCHEME :> SchemeOf(t)) @@ (K_PNUM :> PnumOf(t)) : t \in T}

\* 0000 score push: no timestamp
ScoreFrags == {(K_SCORE :> 80)}

\* JSON fallback: the timestamp is taken uncast from the object, 0 included
JsonFrags == {(K_TIME :> 0) @@ (K_DURATION :> 5)}

\* 0202 ACK, 0340 guidance, 0314 echo, unknown tags, undecodable payloads
EmptyFrags == {EmptyDict}

Fragments(T) ==
    SessionMetaFrags(T) \cup InfoSimpleFrags(T) \cup ScoreFrags \cup JsonFrags
        \cup EmptyFrags

(* ------------------------- Session Accumulator ------------------------ *)
\* variant without the staleness filter: every fragment is merged as it came
StripStale_Unfiltered(parsed, coll) == parsed

\* "newer timestamp wins": a fragment older than the collected timestamp
\* loses its time-correlated fields before the merge
StripStale(parsed, coll) ==
    LET incoming_ts == Get(parsed, K_TIME)
        current_ts  == GetD(coll, K_TIME, 0)
    IN  IF incoming_ts # NoneVal /\ incoming_ts < current_ts
        THEN Without(parsed, {K_TIME, K_DURATION})
        ELSE parsed

\* variant without the seen-timestamps guard
MaterializesSession_Unguarded(p, seen) == Truthy(Get(p, K_TIME))

\* whether the (stripped) fragment opens a new Session record
MaterializesSession(p, seen) ==
    Truthy(Get(p, K_TIME)) /\ Get(p, K_TIME) \notin seen

\* notification_handler on the cycle's accumulation state
\* h = [collected, all_sessions, seen_ts, session_received]
notification_handler(h, parsed) ==
    IF DOMAIN parsed = {}
    THEN h
    ELSE LET p == StripStale(parsed, h.collected)
         IN  IF MaterializesSession(p, h.seen_ts)
             THEN [collected        |-> DictUpdate(h.collected, p),
                   all_sessions     |-> Append(h.all_sessions, p),
                   seen_ts          |-> h.seen_ts \cup {p[K_TIME]},
                   session_received |-> TRUE]
             ELSE [h EXCEPT !.collected = DictUpdate(h.collected, p)]

\* index of max(all_sessions, key=last_brush_time): the first maximal element
LatestIndex(sessions) ==
    SetMin({i \in 1..Len(sessions) :
               \A j \in 1..Len(sessions) :
                   GetD(sessions[j], K_TIME, 0) <= GetD(sessions[i], K_TIME, 0)})

\* late enrichment of the newest session with timestamp-less collected fields
Enrich(sessions, coll) ==
    IF sessions = <<>>
    THEN sessions
    ELSE LET i  == LatestIndex(sessions)
             ks == {k \in ENRICHMENT_KEYS : k \in DOMAIN coll /\ k \notin DOMAIN sessions[i]}
         IN  [sessions EXCEPT ![i] = DictUpdate(@, [k \in ks |-> coll[k]])]

(* --------------------------- Command Sequencer ------------------------ *)
\* the two early exits at the head of the pagination loop body
PaginationStops(sessions, wm) ==
    \/ sessions = <<>>
    \/ LET last_ts == GetD(sessions[Len(sessions)], K_TIME, 0)
       IN  Truthy(last_ts) /\ last_ts <= wm

(* ---------------------------- Smart Poll Gate ------------------------- *)
\* variant with the end bound exclusive
in_window_EndExclusive(start, end, now_t) ==
    IF start < end
    THEN start <= now_t /\ now_t < end
    ELSE now_t >= start \/ now_t < end

in_window(start, end, now_t) ==
    IF start < end
    THEN start <= now_t /\ now_t <= end
    ELSE now_t >= start \/ now_t <= end

\* variant that tests the windows before the cooldown
poll_skip_reason_WindowsFirst(cooldown, now_ts, windows, now_t) ==
    IF windows # <<>> /\ ~ \E i \in 1..Len(windows) :
                              in_window(windows[i][1], windows[i][2], now_t)
    THEN "window"
    ELSE IF cooldown # 0 /\ now_ts < cooldown THEN "cooldown" ELSE "none"

poll_skip_reason(cooldown, now_ts, windows, now_t) ==
    IF cooldown # 0 /\ now_ts < cooldown
    THEN "cooldown"
    ELSE IF windows # <<>> /\ ~ \E i \in 1..Len(windows) :
                                   in_window(windows[i][1], windows[i][2], now_t)
         THEN "window"
         ELSE "none"

(* ---------------------------- State Reconciler ------------------------ *)
\* OcleanDeviceData.from_dict
from_dict(d) == [k \in SnapshotFields |-> Get(d, k)]

\* the sessions _poll_device counts and _import_new_sessions selects as new
NewSessionIdx(sessions, wm) ==
    {i \in 1..Len(sessions) : GetD(sessions[i], K_TIME, 0) > wm}

NewSessionTs(sessions, wm) ==
    {GetD(sessions[i], K_TIME, 0) : i \in NewSessionIdx(sessions, wm)}

\* _import_new_sessions: returns at once when nothing is new; otherwise the
\* logging loop reads the name datetime, which the function's own later
\* "import datetime" makes a local not yet bound: UnboundLocalError.  The
\* statistics hand-off and the watermark advance below it are never reached.
ImportRaises(sessions, wm) ==
    \E i \in NewSessionIdx(sessions, wm) : Truthy(GetD(sessions[i], K_TIME, 0))

\* merged = {persistent keys of the previous snapshot} overlaid with collected
MergeSnapshot(prev, coll) ==
    DictUpdate([k \in PERSISTENT_KEYS |-> Get(prev, k)], coll)

(* ------------------------------- state -------------------------------- *)
VARIABLES
    \* OcleanCoordinator fields
    last_raw, last_poll_successful, last_session_ts, store_loaded,
    brush_head_sw_count, brush_head_hw_supported, dis_last_read_ts,
    cooldown_until, poll_windows, post_brush_cooldown_s,
    \* environment: the persisted record, the clock (seconds), and the kind of
    \* device behaviour the run explores
    store, now, scenario,
    \* the poll cycle in flight: position, client, accumulation state
    pc, client_connected, collected, all_sessions, seen_ts, session_received,
    subscribed, page, exc,
    \* what _async_update_data handed back last
    result,
    \* bookkeeping, for stating properties
    cycles, wm_start, notifs, next_page_cmds, released, gatt, batt_read,
    counted_new, recounted, hw_reported,
    \* the reset button's call of async_reset_brush_head: position, client,
    \* how the last call ended, calls made
    reset,
    \* an evaluation of the poll gate's pure functions: inputs and results
    gate_eval,
    \* store traffic: completed calls of _load_store so far, and calls of
    \* _save_store made by the poll cycle of the current update
    io,
    \* the GATT operations and waits the current cycle has issued, in order
    ops,
    \* an evaluation of parse_notification: input, system time zone, result
    parse_eval,
    \* the raw notifications the handler of the current cycle was called with,
    \* in order (kept where the run delivers raw bytes)
    rx,
    \* Home Assistant's side of the integration's setup: hass.data[DOMAIN],
    \* the handlers of the integration's logger, each config entry's position
    hass

coordVars == <<last_raw, last_poll_successful, last_session_ts, store_loaded,
               brush_head_sw_count, brush_head_hw_supported, dis_last_read_ts,
               cooldown_until, poll_windows, post_brush_cooldown_s>>
envVars   == <<store, now, scenario>>
accVars   == <<collected, all_sessions, seen_ts, session_received>>
cycleVars == <<pc, client_connected, subscribed, page, exc>>
histVars  == <<cycles, wm_start, notifs, next_page_cmds, released, gatt, batt_read,
               counted_new, recounted>>
sideVars  == <<hw_reported, reset, gate_eval, io, ops, parse_eval, rx, hass>>
\* the bookkeeping a GATT step of the cycle leaves alone
otherSide == <<hw_reported, reset, gate_eval, io, parse_eval, rx, hass>>
vars == <<coordVars, envVars, accVars, cycleVars, result, histVars, sideVars>>

NoStore == [present |-> FALSE, last_session_ts |-> 0, brush_head_count |-> 0,
            brush_head_hw |-> FALSE]

\* what the store can hold when the coordinator is created: nothing, or a
\* record saved earlier (watermark w, w sessions counted)
StoreContents ==
    {NoStore} \cup
    {[present |-> TRUE, last_session_ts |-> w, brush_head_count |-> w,
      brush_head_hw |-> FALSE] : w \in 1..MaxTs}

\* local times of day in their order (for instance 00:30, 01:00, 12:00, 23:00,
\* 23:30), and the configurations of (windows, cooldown seconds)
TimesOfDay == 0..4
Configs == {<< <<>>, 0 >>, << << <<3, 1>> >>, 3600 >>}

NoResult == [kind |-> "none", data |-> from_dict(EmptyDict)]

\* no call of async_reset_brush_head made yet
NoReset == [pc |-> "idle", connected |-> FALSE, exc |-> "none", calls |-> 0]

\* no evaluation of the gate's functions recorded
NoGateEval == [fn |-> "none", now_t |-> 0, skip |-> "none", inside |-> FALSE]

\* no evaluation of parse_notification recorded
NoParseEval == [fn |-> "none", data |-> <<>>, utc_offset |-> 0,
                raised |-> FALSE, out |-> EmptyDict]

\* config entries of the integration, and the setups Home Assistant starts
MaxEntries == 2
MaxSetups == 4
Entries == 1..MaxEntries

\* Home Assistant before any entry is set up: no hass.data[DOMAIN] key (0 is
\* the absent _FILE_HANDLER_KEY), no handler on the logger, no coordinator
NoHass == [file_handler |-> 0, handlers |-> {}, entries |-> {},
           at |-> [e \in Entries |-> "not_loaded"], built |-> 0, setups |-> 0]

\* the fields and the cycle state of a new coordinator, gate inputs aside
InitFields ==
    /\ last_raw = EmptyDict
    /\ last_poll_successful = FALSE
    /\ last_session_ts = 0
    /\ store_loaded = FALSE
    /\ brush_head_sw_count = 0
    /\ brush_head_hw_supported = FALSE
    /\ dis_last_read_ts = 0
    /\ pc = "idle"
    /\ client_connected = FALSE
    /\ collected = EmptyDict
    /\ all_sessions = <<>>
    /\ seen_ts = {}
    /\ session_received = FALSE
    /\ subscribed = {}
    /\ page = 0
    /\ exc = "none"
    /\ result = NoResult
    /\ cycles = 0
    /\ wm_start = 0
    /\ notifs = 0
    /\ next_page_cmds = 0
    /\ released = "none"
    /\ gatt = "none"
    /\ batt_read = "none"
    /\ counted_new = {}
    /\ recounted = FALSE
    /\ hw_reported = NoneVal
    /\ reset = NoReset
    /\ io = [loads |-> 0, saves |-> 0]
    /\ ops = <<>>
    /\ rx = <<>>
    /\ hass = NoHass

InitCoordinator ==
    /\ InitFields
    /\ cooldown_until = 0
    /\ now = TickSeconds
    /\ gate_eval = NoGateEval
    /\ parse_eval = NoParseEval

\* sessions: the device answers every call and pushes session fragments
Init ==
    /\ InitCoordinator
    /\ scenario = "sessions"
    /\ \E c \in Configs : poll_windows = c[1] /\ post_brush_cooldown_s = c[2]
    /\ store \in StoreContents

(* ------------------------- _async_update_data ------------------------- *)
\* _load_store, run when the store was not loaded yet
\* variant that loads the store in every update
LoadCalled_EveryUpdate == TRUE

\* "if not self._store_loaded: await self._load_store()"
LoadCalled == ~store_loaded

\* completed loads are counted up to MaxLoadsSeen
LoadsAfter(n) == IF LoadCalled /\ n < MaxLoadsSeen THEN n + 1 ELSE n

\* "if stored:" inside _load_store
LoadsNow == LoadCalled /\ store.present
LoadedTs == IF LoadsNow THEN store.last_session_ts ELSE last_session_ts
LoadedCount == IF LoadsNow THEN store.brush_head_count ELSE brush_head_sw_count
LoadedHw == IF LoadsNow THEN store.brush_head_hw ELSE brush_head_hw_supported

load_store ==
    /\ store_loaded' = TRUE
    /\ io' = [loads |-> LoadsAfter(io.loads), saves |-> 0]
    /\ last_session_ts' = LoadedTs
    /\ brush_head_sw_count' = LoadedCount
    /\ brush_head_hw_supported' = LoadedHw

\* the cycle-scoped objects and the cycle's bookkeeping, as a new update finds them
ResetCycle ==
    /\ collected' = EmptyDict
    /\ all_sessions' = <<>>
    /\ seen_ts' = {}
    /\ session_received' = FALSE
    /\ subscribed' = {}
    /\ page' = 0
    /\ exc' = "none"
    /\ notifs' = 0
    /\ next_page_cmds' = 0
    /\ released' = "none"
    /\ gatt' = "none"
    /\ batt_read' = "none"
    /\ ops' = <<>>
    /\ rx' = <<>>

\* variant that raises UpdateFailed after every failure
FailedResult_AlwaysRaises == [kind |-> "UpdateFailed", data |-> from_dict(EmptyDict)]

\* variant that serves an emptied snapshot after a failure
FailedResult_Cleared == [kind |-> "stale", data |-> from_dict(EmptyDict)]

\* the except branch of _async_update_data: stale data, or UpdateFailed
FailedResult ==
    IF last_raw # EmptyDict
    THEN [kind |-> "stale", data |-> from_dict(last_raw)]
    ELSE [kind |-> "UpdateFailed", data |-> from_dict(EmptyDict)]

\* async_load raises: the exception leaves _async_update_data, nothing is loaded
UpdateLoadFails ==
    /\ pc = "idle"
    /\ LoadCalled
    /\ result' = [kind |-> "raised", data |-> from_dict(EmptyDict)]
    /\ ResetCycle
    /\ wm_start' = last_session_ts
    /\ io' = [io EXCEPT !.saves = 0]
    /\ UNCHANGED <<coordVars, envVars, pc, client_connected, cycles, counted_new,
                   recounted>>
    /\ UNCHANGED <<hw_reported, reset, gate_eval, parse_eval, hass>>

\* variant that answers a skipped update with an empty snapshot
SkipResult_Empty(raw) == [kind |-> "skipped", data |-> from_dict(EmptyDict)]

\* what a skipped update returns: from_dict(_last_raw), or OcleanDeviceData()
\* when there is no snapshot yet
SkipResult(raw) ==
    IF raw # EmptyDict
    THEN [kind |-> "skipped", data |-> from_dict(raw)]
    ELSE [kind |-> "skipped", data |-> NoResult.data]

\* the gate skips: the existing snapshot is returned, no connection is made
UpdateSkipped ==
    /\ pc = "idle"
    /\ \E now_t \in TimesOfDay :
          poll_skip_reason(cooldown_until, now, poll_windows, now_t) # "none"
    /\ load_store
    /\ result' = SkipResult(last_raw)
    /\ ResetCycle
    /\ wm_start' = LoadedTs
    /\ UNCHANGED <<last_raw, last_poll_successful, dis_last_read_ts, cooldown_until,
                   poll_windows, post_brush_cooldown_s, envVars, pc,
                   client_connected, cycles, counted_new, recounted>>
    /\ UNCHANGED <<hw_reported, reset, gate_eval, parse_eval, hass>>

\* _resolve_ble_device or establish_connection raises
UpdateConnectFails ==
    /\ pc = "idle"
    /\ \E now_t \in TimesOfDay :
          poll_skip_reason(cooldown_until, now, poll_windows, now_t) = "none"
    /\ load_store
    /\ last_poll_successful' = FALSE
    /\ result' = FailedResult
    /\ ResetCycle
    /\ wm_start' = LoadedTs
    /\ UNCHANGED <<last_raw, dis_last_read_ts, cooldown_until, poll_windows,
                   post_brush_cooldown_s, envVars, pc, client_connected, cycles,
                   counted_new, recounted>>
    /\ UNCHANGED <<hw_reported, reset, gate_eval, parse_eval, hass>>

\* how many connected cycles a run explores
CycleBound ==
    IF scenario \in {"sessions", "reset", "merge", "waits"}
    THEN MaxCycles ELSE MaxShortCycles

\* establish_connection returns a client: the cycle starts with the settle delay
UpdateConnects ==
    /\ pc = "idle"
    /\ \E now_t \in TimesOfDay :
          poll_skip_reason(cooldown_until, now, poll_windows, now_t) = "none"
    /\ cycles < CycleBound
    /\ load_store
    /\ cycles' = cycles + 1
    /\ pc' = "settle"
    /\ client_connected' = TRUE
    /\ result' = NoResult
    /\ ResetCycle
    /\ wm_start' = LoadedTs
    /\ UNCHANGED <<last_raw, last_poll_successful, dis_last_read_ts, cooldown_until,
                   poll_windows, post_brush_cooldown_s, envVars, counted_new,
                   recounted>>
    /\ UNCHANGED <<hw_reported, reset, gate_eval, parse_eval, hass>>


(* ------------------- _poll_device / _setup_and_read ------------------- *)
\* one issued operation: the call, what it addresses, and the payload bytes
\* where the payload is computed
Op(name, arg, data) == [op |-> name, arg |-> arg, data |-> data]

\* struct.pack(">I", n): four bytes, most significant first
pack_be32(n) ==
    <<(n \div 16777216) % 256, (n \div 65536) % 256, (n \div 256) % 256, n % 256>>

\* CMD_CALIBRATE_TIME_PREFIX, the bytes 02 0E
CMD_CALIBRATE_TIME_PREFIX == <<2, 14>>

\* cal_cmd = CMD_CALIBRATE_TIME_PREFIX + struct.pack(">I", int(time.time()))
cal_cmd(timestamp) == CMD_CALIBRATE_TIME_PREFIX \o pack_be32(timestamp)

\* whether the run lets individual GATT calls fail and the link drop
FailuresOn == scenario = "faults"

\* a GATT call can succeed only while the client is connected
GattOutcomes ==
    IF ~client_connected THEN {FALSE}
    ELSE IF FailuresOn THEN {TRUE, FALSE}
    ELSE {TRUE}

\* bookkeeping: whether the GATT calls of the cycle so far all failed, all
\* succeeded, or both happened
NoteGatt(g, anyOk, anyFail) ==
    IF anyOk /\ anyFail THEN "mixed"
    ELSE IF anyOk THEN (IF g \in {"none", "all_ok"} THEN "all_ok" ELSE "mixed")
    ELSE IF anyFail THEN (IF g \in {"none", "all_failed"} THEN "all_failed" ELSE "mixed")
    ELSE g

\* variant in which an exception of the settle delay skips the finally
SettleFrom_PastFinally(raised) ==
    /\ pc' = IF raised THEN "reconcile" ELSE "calibrate"
    /\ exc' = IF raised THEN "settle" ELSE exc

\* asyncio.sleep(2.0) after connecting; an exception raised there leaves
\* _setup_and_read and reaches the finally of _poll_device
SettleFrom(raised) ==
    /\ pc' = IF raised THEN "finally" ELSE "calibrate"
    /\ exc' = IF raised THEN "settle" ELSE exc

Settle ==
    /\ pc = "settle"
    /\ \E raised \in BOOLEAN : SettleFrom(raised)
    /\ UNCHANGED <<coordVars, envVars, accVars, client_connected, subscribed, page,
                   result, histVars>>
    /\ UNCHANGED sideVars

\* a failed best-effort GATT call is logged and the sequence goes on: the
\* position after the call, and the exception pending
AfterCall(ok, nextPc) == [pc |-> nextPc, exc |-> exc]

\* _calibrate_time: the write may fail, which is logged and ignored
CalibrateTime ==
    /\ pc = "calibrate"
    /\ \E ok \in GattOutcomes :
          /\ gatt' = NoteGatt(gatt, ok, ~ok)
          /\ pc' = AfterCall(ok, "dis").pc
          /\ exc' = AfterCall(ok, "dis").exc
    /\ UNCHANGED <<coordVars, envVars, accVars, client_connected, subscribed, page,
                   result, cycles, wm_start, notifs, next_page_cmds, released,
                   batt_read, counted_new, recounted>>
    /\ ops' = Append(ops, Op("write", "020E", cal_cmd(now)))
    /\ UNCHANGED otherSide

\* outcome of reading one DIS characteristic: failure (NoneVal), or the
\* decoded string ("" is 0)
DisReadOutcomes(k) ==
    IF ~client_connected THEN {NoneVal}
    ELSE IF FailuresOn THEN {NoneVal, 1} \cup (IF k = K_MODEL THEN {0} ELSE {})
    ELSE {1}

DisCached == dis_last_read_ts > 0 /\ now - dis_last_read_ts < DIS_REFRESH_INTERVAL

\* _read_device_info_service: cached values within 24 h, else three reads
ReadDeviceInfo ==
    /\ pc = "dis"
    /\ IF DisCached
       THEN /\ collected' = DictUpdate(collected,
                   [k \in {k \in SeqRange(DIS_KEYS) : Truthy(Get(last_raw, k))}
                       |-> last_raw[k]])
            /\ UNCHANGED <<dis_last_read_ts, gatt>>
       ELSE \E r \in [SeqRange(DIS_KEYS) -> {NoneVal, 0, 1}] :
               /\ \A k \in DOMAIN r : r[k] \in DisReadOutcomes(k)
               /\ collected' = DictUpdate(collected,
                      [k \in {k \in SeqRange(DIS_KEYS) : r[k] # NoneVal} |-> r[k]])
               /\ dis_last_read_ts' =
                      IF \E k \in SeqRange(DIS_KEYS) : Truthy(r[k])
                      THEN now ELSE dis_last_read_ts
               /\ gatt' = NoteGatt(gatt, \E k \in DOMAIN r : r[k] # NoneVal,
                                         \E k \in DOMAIN r : r[k] = NoneVal)
    /\ pc' = "subscribe"
    /\ UNCHANGED <<last_raw, last_poll_successful, last_session_ts, store_loaded,
                   brush_head_sw_count, brush_head_hw_supported, cooldown_until,
                   poll_windows, post_brush_cooldown_s, envVars, all_sessions,
                   seen_ts, session_received, client_connected, subscribed, page,
                   exc, result, cycles, wm_start, notifs, next_page_cmds, released,
                   batt_read, counted_new, recounted>>
    /\ ops' = IF DisCached THEN ops
               ELSE ops \o [i \in 1..Len(DIS_KEYS) |-> Op("read", DIS_KEYS[i], <<>>)]
    /\ UNCHANGED otherSide

\* _subscribe_notifications: start_notify on each of the four channels, each
\* best effort; S is the set of channels whose call succeeded
Subscribe ==
    /\ pc = "subscribe"
    /\ \E S \in SUBSET SeqRange(NOTIFY_CHARS) :
          /\ \A c \in SeqRange(NOTIFY_CHARS) : (c \in S) \in GattOutcomes
          /\ subscribed' = S
          /\ gatt' = NoteGatt(gatt, S # {}, S # SeqRange(NOTIFY_CHARS))
    /\ pc' = "query"
    /\ UNCHANGED <<coordVars, envVars, accVars, client_connected, page, exc, result,
                   cycles, wm_start, notifs, next_page_cmds, released, batt_read,
                   counted_new, recounted>>
    /\ ops' = ops \o [i \in 1..Len(NOTIFY_CHARS) |->
                           Op("start_notify", NOTIFY_CHARS[i], <<>>)]
    /\ UNCHANGED otherSide

\* variant that asks for the running data before the status
QUERY_CMDS_RunningDataFirst == <<"0308", "0303", "0307", "0314">>

\* _send_query_commands: 0303, 0308, 0307 and 0314, each write best effort
QUERY_CMDS == <<"0303", "0308", "0307", "0314">>

SendQuery ==
    /\ pc = "query"
    /\ \E r \in [1..Len(QUERY_CMDS) -> GattOutcomes] :
          gatt' = NoteGatt(gatt, \E i \in DOMAIN r : r[i], \E i \in DOMAIN r : ~r[i])
    /\ pc' = "wait_first"
    /\ UNCHANGED <<coordVars, envVars, accVars, client_connected, subscribed, page,
                   exc, result, cycles, wm_start, notifs, next_page_cmds, released,
                   batt_read, counted_new, recounted>>
    /\ ops' = ops \o [i \in 1..Len(QUERY_CMDS) |-> Op("write", QUERY_CMDS[i], <<>>)]
    /\ UNCHANGED otherSide

\* variant of a wait without its timeout: event.wait() alone
WaitReturns_Unbounded(event_set, timed_out) == event_set

\* asyncio.wait_for(event.wait(), timeout) hands control back when the event
\* is set, and when the timeout elapses (TimeoutError, caught by the caller)
WaitReturns(event_set, timed_out) == event_set \/ timed_out

\* wait_for(session_received.wait(), BLE_NOTIFICATION_WAIT): returns when the
\* event is set, and on timeout otherwise; either way the sequence goes on
WaitFirstSession ==
    /\ pc = "wait_first"
    /\ \E timed_out \in BOOLEAN : WaitReturns(session_received, timed_out)
    /\ pc' = "paginate"
    /\ page' = 0
    /\ UNCHANGED <<coordVars, envVars, accVars, client_connected, subscribed, exc,
                   result, histVars>>
    /\ ops' = Append(ops, Op("wait", "first", <<>>))
    /\ UNCHANGED otherSide

\* variant with one more iteration: range(MAX_SESSION_PAGES)
PageLimit_OneMore == MAX_SESSION_PAGES

\* the range of the pagination loop
PageLimit == MAX_SESSION_PAGES - 1

\* head of one iteration of _paginate_sessions up to the 0309 write
PaginateNext ==
    /\ pc = "paginate"
    /\ IF page >= PageLimit \/ PaginationStops(all_sessions, last_session_ts)
       THEN /\ pc' = "battery"
            /\ UNCHANGED <<session_received, next_page_cmds, gatt>>
       ELSE /\ session_received' = FALSE
            /\ next_page_cmds' = next_page_cmds + 1
            /\ \E ok \in GattOutcomes :
                  /\ gatt' = NoteGatt(gatt, ok, ~ok)
                  /\ pc' = IF ok THEN "page_wait" ELSE "battery"
    /\ UNCHANGED <<coordVars, envVars, collected, all_sessions, seen_ts,
                   client_connected, subscribed, page, exc, result, cycles,
                   wm_start, notifs, released, batt_read, counted_new, recounted>>
    /\ ops' = IF page >= PageLimit \/ PaginationStops(all_sessions, last_session_ts)
               THEN ops
               ELSE Append(ops, Op("write", "0309", <<>>))
    /\ UNCHANGED otherSide

\* wait_for(session_received.wait(), 2.0) of the page: next iteration, or
\* timeout, which ends the loop
PageWait ==
    /\ pc = "page_wait"
    /\ \E timed_out \in BOOLEAN : WaitReturns(session_received, timed_out)
    /\ IF session_received
       THEN pc' = "paginate" /\ page' = page + 1
       ELSE pc' = "battery" /\ page' = page
    /\ UNCHANGED <<coordVars, envVars, accVars, client_connected, subscribed, exc,
                   result, histVars>>
    /\ ops' = Append(ops, Op("wait", "page", <<>>))
    /\ UNCHANGED otherSide

\* the battery characteristic: read failure, an invalid level, or a level
BatteryOutcomes ==
    IF ~client_connected THEN {"fail"}
    ELSE IF FailuresOn THEN {"fail", "invalid", "ok"}
    ELSE {"ok"}

BatteryLevel == 75

\* _read_battery_and_unsubscribe, then the late enrichment that ends
\* _setup_and_read
ReadBattery ==
    /\ pc = "battery"
    /\ \E r \in BatteryOutcomes :
          /\ batt_read' = r
          /\ gatt' = NoteGatt(gatt, r # "fail", r = "fail")
          /\ collected' = IF r = "ok"
                          THEN DictUpdate(collected, (K_BATTERY :> BatteryLevel))
                          ELSE collected
          /\ all_sessions' = Enrich(all_sessions, collected')
    /\ pc' = "finally"
    /\ UNCHANGED <<coordVars, envVars, seen_ts, session_received, client_connected,
                   subscribed, page, exc, result, cycles, wm_start, notifs,
                   next_page_cmds, released, counted_new, recounted>>
    /\ ops' = Append(ops, Op("read", "battery", <<>>))
    /\ UNCHANGED otherSide

\* the positions at which the event loop runs the notification callback: the
\* awaits after the subscription.  A notification that arrives during the
\* subscription or during the query writes is handled before the first wait
\* returns, with no decision of the sequence in between.
AwaitingPcs == {"query", "wait_first", "page_wait", "battery"}

\* the fragments the device's notifications decode to, per kind of run
NotifyFrags ==
    CASE scenario \in {"sessions", "accumulate"} -> Fragments(1..MaxTs)
      [] scenario \in {"faults", "waits"} ->
             {(K_TIME :> 1) @@ (K_DURATION :> DurOf(1)), (K_BATTERY :> 50)}
      [] scenario = "reset"    -> InfoSimpleFrags({1}) \cup {[x \in {K_TIME} |-> 1]}
      [] scenario = "merge"    -> InfoExtendedFrags({1}) \cup ScoreFrags
      [] scenario = "paging"   ->
             {[x \in {K_TIME} |-> GetD(collected, K_TIME, 0) + 1]}
      [] OTHER                 -> {}

\* a 0308 notification: the simple-layout record of 2024-03-05 10:20:30 UTC
InfoNotification ==
    RESP_INFO \o <<24, 3, 5, 10, 20, 30, 0, 1, 2, 9, 9, 9, 9, 9, 7, 1, 44, 1>>

\* 0340 guidance and 0202 ACK notifications with several payloads
AdvisoryNotifications ==
    {RESP_K3GUIDE \o p :
        p \in {<<>>, <<10, 20, 30, 40, 3, 1>>, <<0, 0, 0, 0, 255, 0>>,
               <<1, 2, 3, 4, 9, 1, 7>>}}
    \cup {RESP_DEVICE_INFO \o p : p \in {<<>>, <<79, 75>>}}

\* the raw notifications of a run that delivers bytes: the session record, a
\* 0000 score push, and the advisory ones
RawNotifications ==
    {InfoNotification, RESP_SCORE_T1 \o <<88>>} \cup AdvisoryNotifications

NotifyBound == IF scenario = "paging" THEN MaxPagingTs ELSE MaxNotifs

\* a notification arrives on a subscribed channel and is decoded to parsed
Deliver(parsed) ==
    LET h == notification_handler(
                 [collected |-> collected, all_sessions |-> all_sessions,
                  seen_ts |-> seen_ts, session_received |-> session_received],
                 parsed)
    IN  /\ collected' = h.collected
        /\ all_sessions' = h.all_sessions
        /\ seen_ts' = h.seen_ts
        /\ session_received' = h.session_received

Notify ==
    /\ pc \in AwaitingPcs
    /\ client_connected
    /\ subscribed # {}
    /\ notifs < NotifyBound
    /\ IF scenario = "raw"
       THEN \E data \in RawNotifications :
                /\ Deliver(parse_notification(data, 0).out)
                /\ rx' = Append(rx, data)
       ELSE /\ \E parsed \in NotifyFrags : Deliver(parsed)
            /\ rx' = rx
    /\ notifs' = notifs + 1
    /\ UNCHANGED <<coordVars, envVars, cycleVars, result, cycles, wm_start,
                   next_page_cmds, released, gatt, batt_read, counted_new,
                   recounted>>
    /\ UNCHANGED <<hw_reported, reset, gate_eval, io, ops, parse_eval, hass>>

\* the device goes away in mid-cycle: is_connected turns false
Drop ==
    /\ pc \in {"settle", "calibrate", "dis", "subscribe", "query", "wait_first",
               "paginate", "page_wait", "battery"}
    /\ client_connected
    /\ client_connected' = FALSE
    /\ UNCHANGED <<coordVars, envVars, accVars, pc, subscribed, page, exc, result,
                   histVars>>
    /\ UNCHANGED sideVars

\* the finally of _poll_device: disconnect if the client is still connected
Finally ==
    /\ pc = "finally"
    /\ released' = IF client_connected THEN "disconnect" ELSE "gone"
    /\ client_connected' = FALSE
    /\ pc' = "reconcile"
    /\ UNCHANGED <<coordVars, envVars, accVars, subscribed, page, exc, result,
                   cycles, wm_start, notifs, next_page_cmds, gatt, batt_read,
                   counted_new, recounted>>
    /\ ops' = IF client_connected
               THEN Append(ops, Op("disconnect", "", <<>>))
               ELSE ops
    /\ UNCHANGED otherSide

(* ------------------- after the disconnect: reconcile ------------------ *)
\* variant that assigns the newest timestamp of the cycle without comparing
\* it with the watermark
import_new_sessions_Assigning(sessions, wm) ==
    [raised |-> FALSE,
     last_session_ts |-> SetMax({GetD(sessions[i], K_TIME, 0) : i \in 1..Len(sessions)}),
     save |-> TRUE]

\* _import_new_sessions(sessions) with watermark wm: whether it raises, the
\* watermark it leaves, and whether it saved the store.  With a session newer
\* than the watermark the logging loop raises (see ImportRaises); the last
\* branch (statistics hand-off, watermark advance and save) is what the code
\* has below the loop.
import_new_sessions(sessions, wm) ==
    IF NewSessionIdx(sessions, wm) = {}
    THEN [raised |-> FALSE, last_session_ts |-> wm, save |-> FALSE]
    ELSE IF ImportRaises(sessions, wm)
    THEN [raised |-> TRUE, last_session_ts |-> wm, save |-> FALSE]
    ELSE [raised |-> FALSE,
          last_session_ts |-> Max2(wm, SetMax(NewSessionTs(sessions, wm))),
          save |-> SetMax(NewSessionTs(sessions, wm)) > wm]

\* calls of _save_store in one cycle: the one of _import_new_sessions when it
\* advanced the watermark, and the one that follows the counter's increment
CycleSaves(import_saves, counter_saves) ==
    (IF import_saves THEN 1 ELSE 0) + (IF counter_saves THEN 1 ELSE 0)

\* the hardware latch after a cycle whose connection phase succeeded:
\* "if collected.get(DATA_BRUSH_HEAD_USAGE) is not None:
\*      self._brush_head_hw_supported = True"; it is never assigned False
HwAfterCycle_Tracking(hw, coll) == Get(coll, K_USAGE) # NoneVal

HwAfterCycle(hw, coll) == hw \/ Get(coll, K_USAGE) # NoneVal

\* the rest of _poll_device after the finally, and the return / except of
\* _async_update_data
Reconcile ==
    /\ pc = "reconcile"
    /\ pc' = "idle"
    /\ IF exc # "none"
       THEN /\ last_poll_successful' = FALSE
            /\ result' = FailedResult
            /\ UNCHANGED <<last_raw, last_session_ts, brush_head_sw_count,
                           brush_head_hw_supported, cooldown_until, store,
                           exc, counted_new, recounted, io>>
       ELSE LET hw1 == HwAfterCycle(brush_head_hw_supported, collected)
                newTs == NewSessionTs(all_sessions, last_session_ts)
                new_session_count ==
                    Cardinality(NewSessionIdx(all_sessions, last_session_ts))
                imp == IF all_sessions # <<>>
                       THEN import_new_sessions(all_sessions, last_session_ts)
                       ELSE [raised |-> FALSE, last_session_ts |-> last_session_ts,
                             save |-> FALSE]
                sw1 == IF ~hw1 /\ new_session_count > 0
                       THEN brush_head_sw_count + new_session_count
                       ELSE brush_head_sw_count
                coll1 == IF ~hw1
                         THEN DictUpdate(collected, (K_USAGE :> sw1))
                         ELSE collected
            IN  /\ brush_head_hw_supported' = hw1
                /\ counted_new' = counted_new \cup (newTs \cap (1..MaxTs))
                /\ recounted' = (recounted \/ (newTs \cap counted_new # {}))
                /\ IF imp.raised
                   THEN /\ exc' = "import"
                        /\ last_poll_successful' = FALSE
                        /\ result' = FailedResult
                        /\ UNCHANGED <<last_raw, last_session_ts, brush_head_sw_count,
                                       cooldown_until, store, io>>
                   ELSE /\ exc' = exc
                        /\ last_poll_successful' = TRUE
                        /\ last_session_ts' = imp.last_session_ts
                        /\ cooldown_until' =
                               IF new_session_count > 0 /\ post_brush_cooldown_s > 0
                               THEN now + post_brush_cooldown_s
                               ELSE cooldown_until
                        /\ brush_head_sw_count' = sw1
                        /\ io' = [io EXCEPT !.saves =
                                      CycleSaves(imp.save,
                                                 ~hw1 /\ new_session_count > 0)]
                        /\ store' =
                               IF imp.save \/ (~hw1 /\ new_session_count > 0)
                               THEN [present |-> TRUE,
                                     last_session_ts |-> imp.last_session_ts,
                                     brush_head_count |-> sw1,
                                     brush_head_hw |-> hw1]
                               ELSE store
                        /\ last_raw' = MergeSnapshot(last_raw, coll1)
                        /\ result' = [kind |-> "fresh", data |-> from_dict(last_raw')]
    \* the objects of the cycle end with it
    /\ collected' = EmptyDict
    /\ all_sessions' = <<>>
    /\ seen_ts' = {}
    /\ session_received' = FALSE
    /\ subscribed' = {}
    /\ page' = 0
    /\ UNCHANGED <<store_loaded, dis_last_read_ts, poll_windows,
                   post_brush_cooldown_s, now, scenario, client_connected, cycles,
                   wm_start, notifs, next_page_cmds, released, gatt, batt_read>>
    \* the hardware usage value this cycle reported at the latch test
    /\ hw_reported' = IF exc = "none" /\ Get(collected, K_USAGE) # NoneVal
                      THEN collected[K_USAGE]
                      ELSE hw_reported
    /\ UNCHANGED <<reset, gate_eval, ops, parse_eval, rx, hass>>

\* time passes between updates
Tick ==
    /\ pc = "idle"
    /\ now < TickSeconds * (1 + MaxTicks)
    /\ now' = now + TickSeconds
    /\ UNCHANGED <<coordVars, store, scenario, accVars, cycleVars, result, histVars>>
    /\ UNCHANGED sideVars

(* ------------------ the gate's functions on their own ----------------- *)
\* everything an evaluation of the gate's functions leaves alone
gateFrame == <<coordVars, envVars, accVars, cycleVars, result, histVars,
               hw_reported, reset, io, ops, parse_eval, rx, hass>>

\* _poll_skip_reason() evaluated on the inputs of the state
EvalSkipReason ==
    /\ scenario = "gate"
    /\ gate_eval.fn = "none"
    /\ gate_eval' = [gate_eval EXCEPT
                        !.fn = "skip",
                        !.skip = poll_skip_reason(cooldown_until, now, poll_windows,
                                                  gate_eval.now_t)]
    /\ UNCHANGED gateFrame

\* _in_window(start, end, now) evaluated on the first configured window
EvalInWindow ==
    /\ scenario = "gate"
    /\ gate_eval.fn = "none"
    /\ poll_windows # <<>>
    /\ gate_eval' = [gate_eval EXCEPT
                        !.fn = "in_window",
                        !.inside = in_window(poll_windows[1][1], poll_windows[1][2],
                                             gate_eval.now_t)]
    /\ UNCHANGED gateFrame

(* ----------------------- async_reset_brush_head ----------------------- *)
\* everything of the scheduled update the reset call does not touch
updateVars == <<last_raw, last_poll_successful, last_session_ts, store_loaded,
                brush_head_hw_supported, dis_last_read_ts, cooldown_until,
                poll_windows, post_brush_cooldown_s, now, scenario, accVars,
                cycleVars, result, histVars, hw_reported, gate_eval, io, ops,
                parse_eval, rx, hass>>

\* the record _save_store writes
SavedRecord(ts, count, hw) ==
    [present |-> TRUE, last_session_ts |-> ts, brush_head_count |-> count,
     brush_head_hw |-> hw]

\* the device is not in the bluetooth registry, or establish_connection
\* raises: the error leaves async_reset_brush_head
ResetConnectFails ==
    /\ reset.pc = "idle"
    /\ reset.calls < MaxResets
    /\ reset' = [reset EXCEPT !.exc = "connect", !.calls = @ + 1]
    /\ UNCHANGED <<updateVars, brush_head_sw_count, store>>

\* whether async_reset_brush_head may connect: the code takes no lock and
\* tests nothing, whatever the scheduled update is doing
ResetMayConnect(poll_connected) == TRUE

\* establish_connection returns a client of its own for the reset
ResetConnects ==
    /\ reset.pc = "idle"
    /\ reset.calls < MaxResets
    /\ ResetMayConnect(client_connected)
    /\ reset' = [pc |-> "settle", connected |-> TRUE, exc |-> "none",
                 calls |-> reset.calls + 1]
    /\ UNCHANGED <<updateVars, brush_head_sw_count, store>>

\* asyncio.sleep(2.0) of the reset
ResetSettle ==
    /\ reset.pc = "settle"
    /\ reset' = [reset EXCEPT !.pc = "write"]
    /\ UNCHANGED <<updateVars, brush_head_sw_count, store>>

\* the 020F write: its exception is not caught, it passes the finally
ResetWrite ==
    /\ reset.pc = "write"
    /\ \E ok \in BOOLEAN :
          reset' = [reset EXCEPT !.pc = "finally",
                                 !.exc = IF ok THEN "none" ELSE "write"]
    /\ UNCHANGED <<updateVars, brush_head_sw_count, store>>

\* variant that clears the counter whether or not the write went through
CountAfterReset_Always(count, written) == 0

\* the counter after the reset call's tail: 0 when the write went through
CountAfterReset(count, written) == IF written THEN 0 ELSE count

\* the finally (disconnect), and after a successful write the counter reset
\* and the save, whose exception propagates
ResetFinish ==
    /\ reset.pc = "finally"
    /\ brush_head_sw_count' = CountAfterReset(brush_head_sw_count, reset.exc = "none")
    /\ IF reset.exc = "none"
       THEN \E saved \in BOOLEAN :
               /\ store' = IF saved
                           THEN SavedRecord(last_session_ts, brush_head_sw_count',
                                            brush_head_hw_supported)
                           ELSE store
               /\ reset' = [reset EXCEPT !.pc = "idle", !.connected = FALSE,
                                         !.exc = IF saved THEN "done" ELSE "save"]
       ELSE /\ store' = store
            /\ reset' = [reset EXCEPT !.pc = "idle", !.connected = FALSE]
    /\ UNCHANGED updateVars

(* ------------------ setup and unload of config entries ---------------- *)
\* everything of the coordinators the setup of an entry leaves alone
setupFrame == <<coordVars, envVars, accVars, cycleVars, result, histVars,
                hw_reported, reset, gate_eval, io, ops, parse_eval, rx>>

\* async_setup_entry enters _attach_file_handler: the check of
\* _FILE_HANDLER_KEY, then either the return or the await of the executor job
attach_file_handler_Check(e) ==
    /\ hass.at[e] = "not_loaded"
    /\ hass.setups < MaxSetups
    /\ hass' = [hass EXCEPT !.setups = @ + 1,
                            !.at[e] = IF hass.file_handler # 0
                                      THEN "refresh" ELSE "build"]
    /\ UNCHANGED setupFrame

\* the executor job has built a handler: addHandler and the registration
\* under _FILE_HANDLER_KEY
attach_file_handler_Register(e) ==
    /\ hass.at[e] = "build"
    /\ hass' = [hass EXCEPT !.built = @ + 1,
                            !.handlers = @ \cup {hass.built + 1},
                            !.file_handler = hass.built + 1,
                            !.at[e] = "refresh"]
    /\ UNCHANGED setupFrame

\* the first refresh of the entry's coordinator: the coordinator is stored
\* under the entry id, or ConfigEntryNotReady ends the setup
async_setup_entry_Refresh(e) ==
    /\ hass.at[e] = "refresh"
    /\ \E ok \in BOOLEAN :
          hass' = IF ok
                  THEN [hass EXCEPT !.entries = @ \cup {e}, !.at[e] = "loaded"]
                  ELSE [hass EXCEPT !.at[e] = "not_loaded"]
    /\ UNCHANGED setupFrame

\* _detach_file_handler up to its await: the key is popped and the handler it
\* held is removed from the logger
detach_file_handler(h) ==
    [h EXCEPT !.file_handler = 0,
              !.handlers = IF h.file_handler = 0 THEN @ ELSE @ \ {h.file_handler}]

\* async_unload_entry awaits the unloading of the platforms
async_unload_entry_Platforms(e) ==
    /\ hass.at[e] = "loaded"
    /\ hass' = [hass EXCEPT !.at[e] = "unloading"]
    /\ UNCHANGED setupFrame

\* the rest of async_unload_entry: the entry's coordinator is popped and the
\* handler detached when no entry id remains
async_unload_entry_Finish(e) ==
    /\ hass.at[e] = "unloading"
    /\ \E unload_ok \in BOOLEAN :
          hass' = IF unload_ok
                  THEN LET popped == [hass EXCEPT !.entries = @ \ {e},
                                                  !.at[e] = "not_loaded"]
                       IN  IF popped.entries = {}
                           THEN detach_file_handler(popped)
                           ELSE popped
                  ELSE [hass EXCEPT !.at[e] = "loaded"]
    /\ UNCHANGED setupFrame

(* --------------------------- specifications --------------------------- *)
\* the steps of an update and of its poll cycle
Cycle ==
    \/ UpdateLoadFails
    \/ UpdateSkipped
    \/ UpdateConnectFails
    \/ UpdateConnects
    \/ Settle
    \/ CalibrateTime
    \/ ReadDeviceInfo
    \/ Subscribe
    \/ SendQuery
    \/ WaitFirstSession
    \/ PaginateNext
    \/ PageWait
    \/ ReadBattery
    \/ Notify
    \/ Finally
    \/ Reconcile

\* sessions: every call is answered, session fragments arrive, time passes
Next == Cycle \/ Tick

Spec == Init /\ [][Next]_vars

\* faults: every GATT call may fail and the link may drop
InitFaults ==
    /\ InitCoordinator
    /\ scenario = "faults"
    /\ \E c \in Configs : poll_windows = c[1] /\ post_brush_cooldown_s = c[2]
    /\ store \in {s \in StoreContents : s.last_session_ts <= 1}

NextFaults == Cycle \/ Drop

SpecFaults == InitFaults /\ [][NextFaults]_vars

\* the steps of a poll cycle in flight: the event loop resumes the coroutine
\* after every await, each of which ends by itself (a GATT call returns or
\* raises, a sleep or a bounded wait elapses)
CycleStep ==
    \/ Settle
    \/ CalibrateTime
    \/ ReadDeviceInfo
    \/ Subscribe
    \/ SendQuery
    \/ WaitFirstSession
    \/ PaginateNext
    \/ PageWait
    \/ ReadBattery
    \/ Finally
    \/ Reconcile

\* faults, with a cycle in flight never left waiting forever
SpecFaultsFair == SpecFaults /\ WF_vars(CycleStep)

\* waits: a new coordinator whose device sends, or does not send, its
\* notifications at any await, and whose link may drop at any moment
InitWaits ==
    /\ InitCoordinator
    /\ scenario = "waits"
    /\ \E c \in Configs : poll_windows = c[1] /\ post_brush_cooldown_s = c[2]
    /\ store = NoStore

NextWaits == Cycle \/ Drop

SpecWaits == InitWaits /\ [][NextWaits]_vars

\* waits, with a cycle in flight never left waiting forever
SpecWaitsFair == SpecWaits /\ WF_vars(CycleStep)

\* paging: the device answers every page request with one more session
InitPaging ==
    /\ InitCoordinator
    /\ scenario = "paging"
    /\ \E c \in Configs : poll_windows = c[1] /\ post_brush_cooldown_s = c[2]
    /\ store = NoStore

NextPaging == Cycle

SpecPaging == InitPaging /\ [][NextPaging]_vars

\* accumulate: one cycle of a new coordinator, fed every kind of fragment
InitAccumulate ==
    /\ InitCoordinator
    /\ scenario = "accumulate"
    /\ \E c \in Configs : poll_windows = c[1] /\ post_brush_cooldown_s = c[2]
    /\ store = NoStore

NextAccumulate == Cycle

SpecAccumulate == InitAccumulate /\ [][NextAccumulate]_vars

\* merge: two cycles of a device that pushes an extended record of a
\* session and score pushes, or nothing
InitMerge ==
    /\ InitCoordinator
    /\ scenario = "merge"
    /\ \E c \in Configs : poll_windows = c[1] /\ post_brush_cooldown_s = c[2]
    /\ store \in {s \in StoreContents : s.last_session_ts <= 1}

NextMerge == Cycle

SpecMerge == InitMerge /\ [][NextMerge]_vars

\* raw: one cycle of a device whose notifications arrive as bytes and pass
\* through parse_notification; the store is empty or holds the session's
\* timestamp as watermark
InitRaw ==
    /\ InitCoordinator
    /\ scenario = "raw"
    /\ \E c \in Configs : poll_windows = c[1] /\ post_brush_cooldown_s = c[2]
    /\ store \in {NoStore,
                  [present |-> TRUE,
                   last_session_ts |-> parse_notification(InfoNotification, 0).out[K_TIME],
                   brush_head_count |-> 0, brush_head_hw |-> FALSE]}

NextRaw == Cycle

SpecRaw == InitRaw /\ [][NextRaw]_vars

\* reset: the reset button is pressed at any moment of the update schedule
InitReset ==
    /\ InitCoordinator
    /\ scenario = "reset"
    /\ \E c \in Configs : poll_windows = c[1] /\ post_brush_cooldown_s = c[2]
    /\ store \in StoreContents

ResetCall ==
    \/ ResetConnectFails
    \/ ResetConnects
    \/ ResetSettle
    \/ ResetWrite
    \/ ResetFinish

NextReset == Cycle \/ ResetCall

SpecReset == InitReset /\ [][NextReset]_vars

\* gate: the inputs of _poll_skip_reason and _in_window drawn from bounded
\* sets.  Windows are what _parse_poll_windows yields: start # end.
Windows == {w \in TimesOfDay \X TimesOfDay : w[1] # w[2]}
WindowLists == UNION {[1..n -> Windows] : n \in 0..MaxWindows}
GateClocks == {TickSeconds, 2 * TickSeconds, 3 * TickSeconds}
GateCooldowns == {0, 2 * TickSeconds}

InitGate ==
    /\ InitFields
    /\ scenario = "gate"
    /\ store = NoStore
    /\ post_brush_cooldown_s = 0
    /\ poll_windows \in WindowLists
    /\ cooldown_until \in GateCooldowns
    /\ now \in GateClocks
    /\ \E t \in TimesOfDay : gate_eval = [NoGateEval EXCEPT !.now_t = t]
    /\ parse_eval = NoParseEval

NextGate == EvalSkipReason \/ EvalInWindow

SpecGate == InitGate /\ [][NextGate]_vars

(* --------------------- parse_notification on its own ------------------ *)
\* bytes a notification may carry beyond its record's minimum size
MaxExtra == 2

Take(s, n) == SubSeq(s, 1, IF n <= Len(s) THEN n ELSE Len(s))

Fill(n) == [i \in 1..n |-> 9]

\* the six date bytes (year - 2000, month, day, hour, minute, second): dates
\* the device can hold, and the contents of other fields read as a date
Dates ==
    { <<24, 3, 5, 10, 20, 30>>, <<24, 2, 29, 23, 59, 59>>, <<15, 1, 1, 0, 0, 0>>,
      <<23, 2, 29, 0, 0, 0>>, <<14, 12, 31, 23, 59, 59>>, <<0, 3, 5, 10, 20, 30>>,
      <<0, 40, 5, 10, 20, 30>>, <<24, 3, 5, 24, 0, 0>> }

\* time zone bytes: UTC, UTC+8, UTC-5, and the two ends of the signed range
TzBytes == {0, 32, 236, 127, 128}

\* a simple-layout record: date, time zone, week, pNum, five unknown bytes,
\* blunt-teeth count 263 and raw pressure 300, both little-endian
SimpleRecord(date, tz) ==
    date \o <<tz, 1, 2>> \o Fill(5) \o <<7, 1, 44, 1>> \o Fill(MaxExtra)

SimpleLens == {6, 17} \cup (18..(18 + MaxExtra))

SimplePayloads ==
    {Take(SimpleRecord(d, tz), n) : d \in Dates, tz \in TzBytes, n \in SimpleLens}

\* an extended-layout record: length header, date, pNum 5, duration 150
\* big-endian, eight unknown bytes, time zone, eight area pressures, score,
\* scheme type
ExtendedRecord(len_byte, date, tz, score) ==
    <<0, len_byte>> \o date \o <<5, 0, 150>> \o Fill(8) \o <<tz>>
        \o <<10, 20, 30, 40, 0, 60, 70, 86>> \o <<score, 3>> \o Fill(2 + MaxExtra)

ExtendedLens == {30} \cup (32..(32 + MaxExtra))

ExtendedPayloads ==
    {Take(ExtendedRecord(l, d, tz, sc), n) :
        l \in {31, 32, 33}, d \in Dates, tz \in {0, 32, 236}, sc \in {88, 130},
        n \in ExtendedLens}

\* a 0307 record: pNum candidate 42, four unknown bytes, date, seven more
T1Record(date, b11, b12, b13) ==
    <<42, 66, 35, 0, 1>> \o date \o <<b11, b12, b13>> \o <<0, 150, 0, 4>>
        \o Fill(MaxExtra)

T1Payloads ==
    {Take(T1Record(d, b[1], b[2], b[3]), n) :
        d \in Dates, b \in {<<0, 0, 0>>, <<42, 0, 120>>, <<7, 1, 44>>},
        n \in {10, 11, 13, 14} \cup (18..(18 + MaxExtra))}

\* short payloads, and payloads of the status, score and session-metadata
\* notifications
OtherPayloads ==
    { <<>>, <<1>>, <<0, 0, 0>>, <<0, 0, 0, 87>>, <<0, 0, 0, 101, 0, 0>>,
      <<255>>, <<130, 0>>, <<0, 1, 2, 3, 4, 5>> }
    \cup {Take(Fill(7) \o d \o <<0, 0, dur, 0, 0>>, n) :
             d \in Dates, dur \in {0, 120, 255}, n \in {17, 18}}

Payloads == SimplePayloads \cup ExtendedPayloads \cup T1Payloads \cup OtherPayloads

\* prefixes no handler is registered for; neither starts a UTF-8 JSON text
UnknownTags == {<<255, 238>>, <<1, 2>>}

\* the notifications evaluated: too short, every registered and unknown
\* prefix with every payload, and the JSON texts
Notifications ==
    {<<>>, <<3>>, <<123>>}
    \cup {tag \o p : tag \in PARSERS \cup UnknownTags, p \in Payloads}
    \cup {e.text : e \in JsonTexts}

\* offsets of the system's time zone from UTC, in seconds
UtcOffsets == {0, 3600, -18000}

\* parse_notification(data) evaluated on the input of the state
EvalParseNotification ==
    /\ parse_eval.fn = "none"
    /\ LET r == parse_notification(parse_eval.data, parse_eval.utc_offset)
       IN  parse_eval' = [parse_eval EXCEPT !.fn = "parse_notification",
                                            !.raised = r.raised,
                                            !.out = r.out]
    /\ UNCHANGED <<coordVars, envVars, accVars, cycleVars, result, histVars,
                   hw_reported, reset, gate_eval, io, ops, rx, hass>>

InitParse ==
    /\ InitFields
    /\ scenario = "parse"
    /\ store = NoStore
    /\ post_brush_cooldown_s = 0
    /\ poll_windows = <<>>
    /\ cooldown_until = 0
    /\ now = TickSeconds
    /\ gate_eval = NoGateEval
    /\ \E d \in Notifications, o \in UtcOffsets :
           parse_eval = [NoParseEval EXCEPT !.data = d, !.utc_offset = o]

NextParse == EvalParseNotification

SpecParse == InitParse /\ [][NextParse]_vars

\* logging: Home Assistant sets up and unloads the config entries, each in a
\* task of its own on the one event loop
InitLogging ==
    /\ InitCoordinator
    /\ scenario = "logging"
    /\ store = NoStore
    /\ post_brush_cooldown_s = 0
    /\ poll_windows = <<>>

NextLogging ==
    \E e \in Entries :
        \/ attach_file_handler_Check(e)
        \/ attach_file_handler_Register(e)
        \/ async_setup_entry_Refresh(e)
        \/ async_unload_entry_Platforms(e)
        \/ async_unload_entry_Finish(e)

SpecLogging == InitLogging /\ [][NextLogging]_vars

(* ------------------------------ properties ---------------------------- *)
\* the accumulation state the notification handler works on
AccState == [collected |-> collected, all_sessions |-> all_sessions,
             seen_ts |-> seen_ts, session_received |-> session_received]

\* the handler can be run in this state
HandlerLive == pc \in AwaitingPcs /\ client_connected /\ subscribed # {}

\* timestamps of the Session records of a list
SessionTs(sessions) == {GetD(sessions[i], K_TIME, 0) : i \in 1..Len(sessions)}

\* C1: once a cycle has a client, the cycle never ends while holding the
\* connection: past the finally (normal return or exception, the settle delay
\* included) the client is disconnected, by a disconnect call whenever it
\* still reported connected, and an idle coordinator holds no connection.
C1_DisconnectOnEveryExit ==
    /\ (pc \in {"reconcile", "idle"} => ~client_connected)
    /\ (pc = "reconcile" => released \in {"disconnect", "gone"})

\* a cycle left by an exception of the settle delay, after its disconnect call
C1_Witness == pc = "reconcile" /\ exc = "settle" /\ released = "disconnect"

\* C2: a cycle whose command sequence completed and was disconnected ends
\* with last_session_ts = max(value at cycle start, largest timestamp of the
\* sessions newer than that value), and is a successful cycle.
C2_WatermarkAdvances ==
    [][(pc = "reconcile" /\ exc = "none" /\ pc' = "idle")
         => /\ last_session_ts' =
                 SetMax({wm_start} \cup NewSessionTs(all_sessions, wm_start))
            /\ last_poll_successful']_vars

\* C3: no session timestamp is classified as new in two cycles of one
\* coordinator.
C3_NewAtMostOnce == ~recounted

\* C4: a non-empty fragment whose last_brush_time was not seen yet in the
\* cycle always materializes a Session with that timestamp, whatever was
\* collected before it.
C4_UnseenTimestampMaterializes ==
    HandlerLive =>
        \A parsed \in NotifyFrags :
            (Truthy(Get(parsed, K_TIME)) /\ parsed[K_TIME] \notin seen_ts)
                => parsed[K_TIME] \in
                       SessionTs(notification_handler(AccState, parsed).all_sessions)

\* C5: no two Session records of a cycle's session list have the same
\* last_brush_time.
C5_UniqueSessionKeys ==
    \A i, j \in 1..Len(all_sessions) :
        i # j => GetD(all_sessions[i], K_TIME, 0) # GetD(all_sessions[j], K_TIME, 0)

\* two fragments with the timestamp 1 (a session-meta push with its duration
\* and a simple info record) were fed, and the list holds the one Session
C5_Witness ==
    /\ Len(all_sessions) = 1
    /\ notifs = 2
    /\ Get(collected, K_TIME) = 1
    /\ Get(collected, K_DURATION) = DurOf(1)
    /\ Get(collected, K_USAGE) = UsageOf(1)

\* C6: a fragment whose last_brush_time is strictly older than the collected
\* one changes neither the collected last_brush_time nor last_brush_duration,
\* while its other fields are merged; and no fragment lowers the collected
\* last_brush_time.
C6_NewerTimestampWins ==
    HandlerLive =>
        \A parsed \in NotifyFrags :
            LET after == notification_handler(AccState, parsed).collected
                ts == Get(parsed, K_TIME)
            IN  /\ GetD(after, K_TIME, 0) >= GetD(collected, K_TIME, 0)
                /\ (ts # NoneVal /\ ts < GetD(collected, K_TIME, 0))
                     => /\ Get(after, K_TIME) = Get(collected, K_TIME)
                        /\ Get(after, K_DURATION) = Get(collected, K_DURATION)
                        /\ \A k \in (DOMAIN parsed) \ {K_TIME, K_DURATION} :
                               Get(after, k) = parsed[k]

\* the simple info record of timestamp 1 arrived after timestamp 2 was
\* collected: its pressure was merged, time and duration stayed, no Session
\* was opened for it
C6_Witness ==
    /\ Get(collected, K_TIME) = 2
    /\ Get(collected, K_DURATION) = DurOf(2)
    /\ Get(collected, K_PRESSURE) = PressOf(1)
    /\ Len(all_sessions) = 1

\* C7: no next-page command is sent while the oldest session observed so far
\* in the cycle has a last_brush_time at or below last_session_ts.
C7_StopsAtKnownSession ==
    [][next_page_cmds' = next_page_cmds + 1
         => ~(all_sessions # <<>> /\ SetMin(SessionTs(all_sessions)) <= last_session_ts)]_vars

\* C8: a cycle sends at most MAX_SESSION_PAGES - 1 next-page commands.
C8_PageLimit == next_page_cmds <= MAX_SESSION_PAGES - 1

\* the device kept pushing sessions and the loop ran to its last iteration
C8_Witness == next_page_cmds = MAX_SESSION_PAGES - 1 /\ pc = "battery"

\* C9: a cycle in which GATT calls failed, and nothing else went wrong in the
\* command sequence, reaches the battery read and the disconnect and
\* completes as a successful cycle that returns fresh data.
C9_GattFailuresNotFatal ==
    (pc = "idle" /\ released # "none" /\ gatt \in {"mixed", "all_failed"}
        /\ exc # "settle")
        => /\ batt_read # "none"
           /\ last_poll_successful
           /\ result.kind = "fresh"

\* C10: an update whose connection cannot be established leaves the snapshot
\* as it was, marks the poll unsuccessful and serves the previous snapshot if
\* there is one, and raises UpdateFailed otherwise; the snapshot changes only
\* in a cycle that returns it as fresh data.
C10_ConnectionFailureServesStale ==
    [][/\ (pc = "idle" /\ pc' = "idle" /\ result'.kind \in {"stale", "UpdateFailed"})
            => /\ last_raw' = last_raw
               /\ ~last_poll_successful'
               /\ (last_raw # EmptyDict
                     => result' = [kind |-> "stale", data |-> from_dict(last_raw)])
               /\ (last_raw = EmptyDict => result'.kind = "UpdateFailed")
       /\ (last_raw' # last_raw
            => result' = [kind |-> "fresh", data |-> from_dict(last_raw')])]_vars

\* a connection failure after a successful cycle: the snapshot of that cycle,
\* with its battery level, is served stale
C10_Witness ==
    /\ pc = "idle"
    /\ result.kind = "stale"
    /\ released = "none"
    /\ cycles = 1
    /\ ~last_poll_successful
    /\ result.data[K_BATTERY] = BatteryLevel

\* C11: a failure of the persistence adapter is never fatal: no update ends
\* by raising the exception of a failed store load (it proceeds as with no
\* prior state instead).
C11_PersistenceNeverFatal == result.kind # "raised"

\* C12: at most one connect-through-disconnect interaction with the device
\* is in flight: the scheduled update and the reset call never both hold a
\* connection.
C12_OneConnectionInFlight == ~(client_connected /\ reset.connected)

\* C13: every cycle that has connected reaches the disconnect; a wait that
\* ends raises nothing in the cycle, and a page wait that ends without a
\* session ends the pagination; a cycle without any session sends no
\* next-page command and completes as a successful cycle with fresh data.
C13_BoundedWaits ==
    /\ (pc = "settle") ~> (released # "none")
    /\ [][(pc \in {"wait_first", "page_wait"} /\ pc' # pc)
            => /\ exc' = exc
               /\ (pc = "page_wait" /\ ~session_received => pc' = "battery")]_vars
    /\ [](pc = "reconcile" /\ all_sessions = <<>> => next_page_cmds = 0)
    /\ [][(pc = "reconcile" /\ pc' = "idle" /\ all_sessions = <<>> /\ exc = "none")
            => (last_poll_successful' /\ result'.kind = "fresh")]_vars

\* the device sent one session and then stopped answering: the page wait of
\* the first next-page command timed out, and the cycle was disconnected
C13_Witness ==
    /\ pc = "reconcile"
    /\ released = "disconnect"
    /\ next_page_cmds = 1
    /\ Len(all_sessions) = 1
    /\ page = 0

\* a step of a skipped update (and of nothing else)
SkippedUpdateStep ==
    /\ pc = "idle" /\ pc' = "idle"
    /\ result'.kind = "skipped"
    /\ reset' = reset /\ now' = now

\* what a skipped update has in common in both readings: no connection, no
\* command, the existing snapshot returned, snapshot and cooldown untouched
SkipFrame ==
    /\ ~client_connected' /\ gatt' = "none" /\ next_page_cmds' = 0
    /\ result'.data = from_dict(last_raw)
    /\ last_raw' = last_raw
    /\ cooldown_until' = cooldown_until

\* C14 (as stated): an update skipped by the gate connects to nothing, sends
\* nothing, returns the existing snapshot, and leaves the snapshot,
\* last_session_ts, the software counter, the hardware latch and
\* cooldown_until unchanged.
C14_SkipChangesNothing ==
    [][SkippedUpdateStep
         => /\ SkipFrame
            /\ last_session_ts' = last_session_ts
            /\ brush_head_sw_count' = brush_head_sw_count
            /\ brush_head_hw_supported' = brush_head_hw_supported]_vars

\* C14 (amended): as above, except that an update that finds the store not
\* loaded yet loads it before the gate is evaluated: last_session_ts, the
\* software counter and the hardware latch then take the persisted values,
\* and stay as they were in every other skipped update.
C14_SkipChangesNothingButLoad ==
    [][SkippedUpdateStep
         => /\ SkipFrame
            /\ store_loaded'
            /\ last_session_ts' = LoadedTs
            /\ brush_head_sw_count' = LoadedCount
            /\ brush_head_hw_supported' = LoadedHw
            /\ (store_loaded
                  => /\ last_session_ts' = last_session_ts
                     /\ brush_head_sw_count' = brush_head_sw_count
                     /\ brush_head_hw_supported' = brush_head_hw_supported)]_vars

\* the first update of a coordinator was skipped by the gate after it had
\* loaded the watermark 1 from the store
C14_Witness ==
    /\ result.kind = "skipped"
    /\ cycles = 0
    /\ store_loaded
    /\ last_session_ts = 1
    /\ ~client_connected
    /\ reset = NoReset

\* the two conditions of a skip, on the inputs of the state
CooldownApplies == cooldown_until # 0 /\ now < cooldown_until
OutsideAllWindows ==
    /\ poll_windows # <<>>
    /\ \A i \in 1..Len(poll_windows) :
           ~in_window(poll_windows[i][1], poll_windows[i][2], gate_eval.now_t)

\* C15: the gate skips exactly when the cooldown is set and not yet over, or
\* windows are configured and the time of day is inside none of them; the
\* cooldown is the reason whenever it applies; without windows the window
\* test skips nothing.
C15_GateSkipsIff ==
    gate_eval.fn = "skip" =>
        /\ (gate_eval.skip # "none") <=> (CooldownApplies \/ OutsideAllWindows)
        /\ (gate_eval.skip = "cooldown") <=> CooldownApplies
        /\ (gate_eval.skip = "window") <=> (~CooldownApplies /\ OutsideAllWindows)
        /\ (poll_windows = <<>> => gate_eval.skip # "window")

\* both conditions apply and the cooldown is the reason given
C15_Witness ==
    /\ gate_eval.fn = "skip"
    /\ CooldownApplies /\ OutsideAllWindows
    /\ gate_eval.skip = "cooldown"

\* C16: for start # end, _in_window(start, end, now) is true exactly when
\* start < end and start <= now <= end, or start > end and (now >= start or
\* now <= end); both bounds are inclusive.
C16_InWindow ==
    gate_eval.fn = "in_window" =>
        LET start == poll_windows[1][1]
            end   == poll_windows[1][2]
            now_t == gate_eval.now_t
        IN  gate_eval.inside <=>
                \/ (start < end /\ start <= now_t /\ now_t <= end)
                \/ (start > end /\ (now_t >= start \/ now_t <= end))

\* the overnight window 3-1 (23:00-01:00) holds its own end 1 (01:00)
C16_Witness ==
    /\ gate_eval.fn = "in_window"
    /\ poll_windows[1] = <<3, 1>>
    /\ gate_eval.now_t = 1
    /\ gate_eval.inside

C19_OneWayLatch ==
    [][/\ brush_head_hw_supported => brush_head_hw_supported'
       /\ (/\ pc = "reconcile" /\ exc = "none"
           /\ Get(collected, K_USAGE) # NoneVal
           /\ result'.kind = "fresh")
              => brush_head_hw_supported']_vars

\* a cycle reported a hardware value and set the latch, a later connected
\* cycle without any notification succeeded, the reset ran to its end, and
\* the latch is still set, in memory and in the saved record
C19_Witness ==
    /\ pc = "idle" /\ cycles = 2 /\ notifs = 0
    /\ hw_reported # NoneVal
    /\ result.kind = "fresh"
    /\ reset.exc = "done"
    /\ brush_head_hw_supported
    /\ store.present /\ store.brush_head_hw

\* C20: a cycle whose command sequence completed and that ends with the
\* hardware latch false raises brush_head_sw_count by exactly the number of
\* its sessions newer than the watermark held at cycle start, and its
\* snapshot's brush_head_usage is the new counter value; a cycle that ends
\* with the latch true leaves the counter unchanged; the counter decreases
\* only in async_reset_brush_head, which sets it to 0.
C20_SoftwareCounter ==
    [][/\ (pc = "reconcile" /\ pc' = "idle" /\ exc = "none"
             /\ ~brush_head_hw_supported')
          => /\ brush_head_sw_count' = brush_head_sw_count
                    + Cardinality(NewSessionIdx(all_sessions, wm_start))
             /\ result'.kind = "fresh"
             /\ result'.data[K_USAGE] = brush_head_sw_count'
       /\ (pc = "reconcile" /\ pc' = "idle" /\ brush_head_hw_supported')
          => brush_head_sw_count' = brush_head_sw_count
       /\ (brush_head_sw_count' < brush_head_sw_count)
          => (reset.pc = "finally" /\ reset'.pc = "idle"
                /\ brush_head_sw_count' = 0)]_vars

\* C21: a cycle that changes last_session_ts, brush_head_sw_count or
\* brush_head_hw_supported saves the store in that cycle with the new values,
\* so that the stored record equals the fields in memory when the cycle ends
\* (a cycle that only sets the hardware latch included).
C21_DurableChangeSaved ==
    [][(/\ pc = "reconcile" /\ pc' = "idle"
        /\ <<last_session_ts, brush_head_sw_count, brush_head_hw_supported>>'
              # <<last_session_ts, brush_head_sw_count, brush_head_hw_supported>>)
         => store' = SavedRecord(last_session_ts', brush_head_sw_count',
                                 brush_head_hw_supported')]_vars

MergedFields ==
    {K_BATTERY, K_SCORE, K_DURATION, K_PRESSURE, K_TIME, K_AREAS, K_SCHEME,
     K_PNUM, K_USAGE, K_MODEL, K_HWREV, K_SWVER}

\* the step that ends a successful cycle
SuccessfulCycleEnd ==
    pc = "reconcile" /\ pc' = "idle" /\ result'.kind = "fresh"

\* field k of the new snapshot is the collected value if the cycle collected
\* one, and the value of the previous snapshot otherwise (brush_head_usage
\* under a false latch is the software counter, see C20)
KeptOrFresh(k) ==
    \/ k = K_USAGE /\ ~brush_head_hw_supported'
    \/ result'.data[k] = IF k \in DOMAIN collected
                         THEN collected[k]
                         ELSE from_dict(last_raw)[k]

\* C23: after a successful cycle every field of the snapshot that the cycle
\* did not collect keeps the value of the previous snapshot, and every
\* collected field has the fresh value.
C23_MergeKeepsOrRefreshes ==
    [][SuccessfulCycleEnd => \A k \in MergedFields : KeptOrFresh(k)]_vars

\* C24: once the store has been loaded, no step (of a successful, failed or
\* skipped update, or of the brush-head reset) lowers last_session_ts, a
\* cycle that only sees sessions older than the watermark included.
C24_WatermarkNeverLowered ==
    [][store_loaded => last_session_ts' >= last_session_ts]_vars

\* a successful cycle whose only session is older than the loaded watermark
\* has ended, the reset has run, and the watermark is where it was
C24_Witness ==
    /\ pc = "idle" /\ result.kind = "fresh" /\ notifs > 0
    /\ store_loaded /\ wm_start = 2 /\ last_session_ts = 2
    /\ Get(last_raw, K_TIME) = 1
    /\ reset.exc = "done"

\* the place of an operation in the order C25 gives
Stage(o) ==
    CASE o.op = "write" /\ o.arg = "020E"                    -> 1
      [] o.op = "read" /\ o.arg \in SeqRange(DIS_KEYS)         -> 2
      [] o.op = "start_notify"                                -> 3
      [] o.op = "write" /\ o.arg = "0303"                    -> 4
      [] o.op = "write" /\ o.arg \in {"0308", "0307", "0314"} -> 5
      [] o.op = "wait" /\ o.arg = "first"                    -> 6
      [] o.op = "write" /\ o.arg = "0309"                    -> 7
      [] o.op = "wait" /\ o.arg = "page"                     -> 7
      [] o.op = "read" /\ o.arg = "battery"                  -> 8
      [] o.op = "disconnect"                                  -> 9

IsWrite(o) == o.op = "write"
IsSubscribe(o) == o.op = "start_notify"
Writes == SelectSeq(ops, IsWrite)

\* the value of four bytes read most significant first
from_be32(b) == ((b[1] * 256 + b[2]) * 256 + b[3]) * 256 + b[4]

\* the operations of a cycle whose settle delay has passed, up to the battery
\* read: d says whether the device information is read, n counts the
\* next-page commands, w whether the last of them was waited for
FullSequence(d, n, w) ==
    <<Op("write", "020E", cal_cmd(now))>>
    \o (IF d THEN [i \in 1..Len(DIS_KEYS) |-> Op("read", DIS_KEYS[i], <<>>)] ELSE <<>>)
    \o [i \in 1..Len(NOTIFY_CHARS) |-> Op("start_notify", NOTIFY_CHARS[i], <<>>)]
    \o <<Op("write", "0303", <<>>), Op("write", "0308", <<>>),
         Op("write", "0307", <<>>), Op("write", "0314", <<>>),
         Op("wait", "first", <<>>)>>
    \o [i \in 1..(2 * n - (IF w THEN 0 ELSE 1)) |->
           IF i % 2 = 1 THEN Op("write", "0309", <<>>) ELSE Op("wait", "page", <<>>)]
    \o <<Op("read", "battery", <<>>)>>

C26_EnrichmentNotFromOtherSession ==
    [][(pc = "battery" /\ pc' = "finally" /\ all_sessions # <<>>)
         => LET i == LatestIndex(all_sessions)
            IN  /\ Len(all_sessions') = Len(all_sessions)
                /\ \A j \in 1..Len(all_sessions) :
                      j # i => all_sessions'[j] = all_sessions[j]
                /\ \A k \in DOMAIN all_sessions'[i] :
                      IF k \in DOMAIN all_sessions[i]
                      THEN all_sessions'[i][k] = all_sessions[i][k]
                      ELSE /\ k \in ENRICHMENT_KEYS
                           /\ \A j \in 1..Len(all_sessions) :
                                 (j # i /\ k \in DOMAIN all_sessions[j])
                                    => all_sessions'[i][k] # all_sessions[j][k]]_vars

(* --------------------------- parse_notification ----------------------- *)
\* the prefix and the payload of the notification evaluated
EvalTag == Slice(parse_eval.data, 0, 2)
EvalPayload == Slice(parse_eval.data, 2, Len(parse_eval.data))
Parsed == parse_eval.fn = "parse_notification"

\* the least payload size a registered prefix's handler takes a field from
FormatMinSize(tag) ==
    CASE tag = RESP_STATE           -> 4
      [] tag = RESP_INFO            -> RUNNING_DATA_MIN_RECORD_SIZE
      [] tag = RESP_INFO_T1         -> T1_MIN_SIZE
      [] tag = RESP_SCORE_T1        -> 1
      [] tag = RESP_SESSION_META_T1 -> 18
      [] tag = RESP_BRUSH_AREAS_T1  -> 14
      [] OTHER                      -> 0

\* C27: parse_notification never raises: for every notification (shorter than
\* 2 bytes, a registered prefix with any payload, an unknown prefix, or the
\* text of a JSON object with any values) it returns a fragment, and the
\* fragment is empty when the notification is shorter than 2 bytes, when the
\* payload is shorter than its format's minimum size, and when the prefix is
\* unknown and the notification is not a JSON object.
C27_ParseNeverRaises ==
    Parsed =>
        /\ ~parse_eval.raised
        /\ Len(parse_eval.data) < 2 => parse_eval.out = EmptyDict
        /\ (Len(parse_eval.data) >= 2 /\ EvalTag \in PARSERS
                /\ Len(EvalPayload) < FormatMinSize(EvalTag))
               => parse_eval.out = EmptyDict
        /\ (Len(parse_eval.data) >= 2 /\ EvalTag \notin PARSERS
                /\ json_loads(parse_eval.data).kind # "object")
               => parse_eval.out = EmptyDict

\* the keys of an extended-layout fragment and of a simple-layout fragment
ExtendedKeys == {K_TIME, K_DURATION, K_SCORE, K_PRESSURE, K_AREAS, K_SCHEME, K_PNUM}
SimpleKeys == {K_TIME, K_PRESSURE, K_USAGE}

InfoParsed == Parsed /\ Len(parse_eval.data) >= 2 /\ EvalTag = RESP_INFO

\* C28: for every INFO (0308) payload that matches the extended heuristic
\* (byte 0 = 0, byte 1 >= 32, length >= byte 1) the fragment is the
\* extended-layout fragment or empty, never a simple-layout one; an INFO
\* payload whose byte 0 is 0 and that does not match the heuristic yields the
\* empty fragment.
C28_ExtendedOrEmpty ==
    InfoParsed =>
        LET p == EvalPayload
            matches == /\ Len(p) >= 2
                       /\ At(p, 0) = 0
                       /\ At(p, 1) >= 32
                       /\ Len(p) >= At(p, 1)
            out == parse_eval.out
        IN  /\ ~parse_eval.raised
            /\ matches =>
                   \/ out = EmptyDict
                   \/ /\ DOMAIN out = ExtendedKeys
                      /\ out[K_PNUM] = At(p, 8)
                      /\ out[K_DURATION] = At(p, 9) * 256 + At(p, 10)
                      /\ out[K_SCHEME] = At(p, 29)
                      /\ out[K_AREAS] = SubSeq(p, 21, 28)
            /\ (Len(p) >= 1 /\ At(p, 0) = 0 /\ ~matches) => out = EmptyDict

\* an INFO payload that matches the heuristic was parsed into the extended
\* fragment, its score byte 130 clamped to 100
C28_Witness ==
    /\ InfoParsed
    /\ Len(EvalPayload) = 32
    /\ At(EvalPayload, 0) = 0 /\ At(EvalPayload, 1) = 32
    /\ DOMAIN parse_eval.out = ExtendedKeys
    /\ At(EvalPayload, 28) = 130
    /\ parse_eval.out[K_SCORE] = 100

\* days from 1970-01-01 to the date, counted year by year and month by month
RefDays(y, m, d) ==
    365 * (y - 1970)
        + Cardinality({yy \in 1970..(y - 1) :
                          (yy % 4 = 0 /\ yy % 100 # 0) \/ yy % 400 = 0})
        + SeqSum([i \in 1..(m - 1) |->
                     IF i = 2
                     THEN (IF (y % 4 = 0 /\ y % 100 # 0) \/ y % 400 = 0 THEN 29 ELSE 28)
                     ELSE IF i \in {4, 6, 9, 11} THEN 30 ELSE 31])
        + d - 1

\* six date bytes read as UTC seconds
RefUtcSeconds(b) ==
    RefDays(2000 + b[1], b[2], b[3]) * 86400 + b[4] * 3600 + b[5] * 60 + b[6]

\* a byte as a signed 8-bit value
Signed8(b) == IF b >= 128 THEN b - 256 ELSE b

\* C29: for every valid secondary-family INFO (0307) session push the fragment
\* holds last_brush_time from bytes 5-10, last_brush_pnum equal to the byte at
\* payload offset 11 and, when the payload has at least 14 bytes,
\* last_brush_duration equal to the big-endian 16-bit value at offsets 12-13;
\* it never holds a score or a pressure.
C29_T1Fields ==
    (Parsed /\ Len(parse_eval.data) >= 2 /\ EvalTag = RESP_INFO_T1
        /\ parse_eval.out # EmptyDict) =>
        LET p == EvalPayload
            out == parse_eval.out
        IN  /\ K_TIME \in DOMAIN out
            /\ out[K_TIME] = RefUtcSeconds(SubSeq(p, 6, 11)) - parse_eval.utc_offset
            /\ Len(p) >= 12 => (K_PNUM \in DOMAIN out /\ out[K_PNUM] = At(p, 11))
            /\ Len(p) >= 14 =>
                   /\ K_DURATION \in DOMAIN out
                   /\ out[K_DURATION] = At(p, 12) * 256 + At(p, 13)
            /\ K_SCORE \notin DOMAIN out
            /\ K_PRESSURE \notin DOMAIN out

\* C30: for every simple-layout and extended-layout INFO record with a valid
\* date, last_brush_time is the device-local date and time read as UTC
\* seconds, minus 900 seconds times the time zone byte read as a signed 8-bit
\* value; byte 32 subtracts 8 hours and byte 236 adds 5 hours.
C30_TimeZoneApplied ==
    (InfoParsed /\ parse_eval.out # EmptyDict) =>
        LET p == EvalPayload
            out == parse_eval.out
            extended == K_USAGE \notin DOMAIN out
            date == IF extended THEN SubSeq(p, 3, 8) ELSE SubSeq(p, 1, 6)
            tz == IF extended THEN At(p, 19) ELSE At(p, 6)
        IN  /\ K_TIME \in DOMAIN out
            /\ out[K_TIME] = RefUtcSeconds(date) - 900 * Signed8(tz)
            /\ tz = 32 => out[K_TIME] = RefUtcSeconds(date) - 8 * 3600
            /\ tz = 236 => out[K_TIME] = RefUtcSeconds(date) + 5 * 3600

\* the simple-layout record of 2024-03-05 10:20:30 with time zone byte 236
\* (UTC-5) parsed to 15:20:30 UTC of that day
C30_Witness ==
    /\ InfoParsed
    /\ DOMAIN parse_eval.out = SimpleKeys
    /\ Len(EvalPayload) >= 18
    /\ SubSeq(EvalPayload, 1, 7) = <<24, 3, 5, 10, 20, 30, 236>>
    /\ parse_eval.out[K_TIME] = 1709652030

(* ------------------------ advisory notifications ---------------------- *)
\* the step handled one more raw notification, a 0340 or a 0202
AdvisoryArrived ==
    /\ Len(rx') = Len(rx) + 1
    /\ SubSeq(rx', 1, Len(rx)) = rx
    /\ Len(rx'[Len(rx')]) >= 2
    /\ SubSeq(rx'[Len(rx')], 1, 2) \in {RESP_K3GUIDE, RESP_DEVICE_INFO}

\* C31: a REALTIME_GUIDANCE (0340) or DEVICE_INFO ACK (0202) notification
\* with any payload leaves the cycle's collected fields, its session list,
\* the seen timestamps and the session-received signal unchanged, at whatever
\* point of the cycle it arrives; nothing else the snapshot is built from
\* changes either.
C31_AdvisoryChangesNothing ==
    [][AdvisoryArrived =>
          UNCHANGED <<collected, all_sessions, seen_ts, session_received,
                      coordVars, store, pc, client_connected, subscribed, page,
                      exc, result, hw_reported, io>>]_vars

\* a successful cycle returned a snapshot with the session's fields after a
\* guidance notification arrived behind the session record
C31_Witness ==
    /\ scenario = "raw"
    /\ pc = "idle"
    /\ result.kind = "fresh"
    /\ Len(rx) = 2
    /\ rx[1] = InfoNotification
    /\ SubSeq(rx[2], 1, 2) = RESP_K3GUIDE /\ Len(rx[2]) = 8
    /\ result.data[K_USAGE] = 263

(* ------------------------- fields of one session ---------------------- *)
\* the value a fragment of the session with timestamp t carries for key k
ValueOf(k, t) ==
    CASE k = K_DURATION -> DurOf(t)
      [] k = K_PRESSURE -> PressOf(t)
      [] k = K_USAGE    -> UsageOf(t)
      [] k = K_SCORE    -> ScoreOf(t)
      [] k = K_AREAS    -> AreasOf(t)
      [] k = K_SCHEME   -> SchemeOf(t)
      [] k = K_PNUM     -> PnumOf(t)

\* the values fragments without a timestamp carry for key k
TimestamplessValuesOf(k) == {f[k] : f \in {g \in ScoreFrags : k \in DOMAIN g}}

LastSessionFields ==
    {K_DURATION, K_PRESSURE, K_SCORE, K_AREAS, K_SCHEME, K_USAGE}

\* C32: after a successful cycle in which at least one Session was
\* materialized, every last-session field collected in that cycle and returned
\* in the snapshot was carried by a fragment whose last_brush_time is the
\* snapshot's last_brush_time, or by a fragment without a timestamp.
C32_FieldsOfOneSession ==
    [][(pc = "reconcile" /\ pc' = "idle" /\ result'.kind = "fresh"
            /\ all_sessions # <<>>)
          => \A k \in LastSessionFields \cap DOMAIN collected :
                 \/ result'.data[k] = ValueOf(k, result'.data[K_TIME])
                 \/ result'.data[k] \in TimestamplessValuesOf(k)]_vars

\* C33: across the successful cycles of one coordinator the snapshot's
\* last_brush_time never decreases: a cycle in which the device reports only
\* sessions older than the snapshot's last_brush_time does not replace it.
C33_SnapshotTimeMonotone ==
    [][(Get(last_raw, K_TIME) # NoneVal /\ last_raw' # last_raw)
          => Get(last_raw', K_TIME) >= Get(last_raw, K_TIME)]_vars

\* the fields a failing cycle is to leave alone
GuardedFields ==
    <<last_raw, last_session_ts, brush_head_sw_count, brush_head_hw_supported,
      cooldown_until>>

CycleFailed == result'.kind \in {"stale", "UpdateFailed"}

\* C34: a poll cycle that ends in failure (connection failure, an exception
\* during the command sequence, or an exception raised after the disconnect
\* while importing sessions or saving the store) leaves the snapshot,
\* last_session_ts, brush_head_sw_count, brush_head_hw_supported and
\* cooldown_until as they were when the cycle started, that is, as the load
\* of the store at the head of the update left them.
C34_FailedCycleChangesNothing ==
    [][/\ (pc = "idle" /\ pc' = "idle" /\ CycleFailed)
            => /\ last_raw' = last_raw
               /\ cooldown_until' = cooldown_until
               /\ last_session_ts' = LoadedTs
               /\ brush_head_sw_count' = LoadedCount
               /\ brush_head_hw_supported' = LoadedHw
       /\ (pc \notin {"idle", "reconcile"}) => UNCHANGED GuardedFields
       /\ (pc = "reconcile" /\ pc' = "idle" /\ CycleFailed)
            => UNCHANGED GuardedFields]_vars

(* ------------------------- device information ------------------------- *)
\* the reads of the Device Information characteristics among the operations
DisReads(o) == {i \in 1..Len(o) : o[i].op = "read" /\ o[i].arg \in SeqRange(DIS_KEYS)}

\* C35: the device-information characteristics are read in a cycle exactly
\* when they were never read successfully or the last successful read is at
\* least 24 hours old; and when a cycle skips the read as cached, the
\* snapshot that cycle returns holds the model, hardware and firmware values
\* of the last successful read (every successful read yields the value 1),
\* also when the cycle that made the read failed later.
C35_DeviceInfoCache ==
    [][/\ (pc = "dis" /\ pc' = "subscribe")
            => (DisReads(ops') # DisReads(ops)
                  <=> (dis_last_read_ts = 0
                         \/ now - dis_last_read_ts >= 24 * 3600))
       /\ (pc = "reconcile" /\ pc' = "idle" /\ result'.kind = "fresh"
              /\ DisReads(ops) = {})
            => \A k \in SeqRange(DIS_KEYS) : result'.data[k] = 1]_vars

(* ----------------------------- UpdateFailed --------------------------- *)
\* C36: _async_update_data raises UpdateFailed only while no poll cycle of
\* the coordinator has completed successfully: once a cycle has returned fresh
\* data, no later update raises UpdateFailed and every later failing cycle
\* returns the snapshot as stale data; a skipped update never raises, it
\* returns the snapshot, or the empty snapshot when there is none yet.
C36_UpdateFailedOnlyBeforeFirstSuccess ==
    /\ [](result.kind = "fresh" => [](result.kind # "UpdateFailed"))
    /\ [][/\ (result.kind = "fresh" /\ result'.kind = "stale")
               => result'.data = result.data
          /\ (result'.kind = "stale" /\ result' # result)
               => result'.data = from_dict(last_raw) /\ last_raw # EmptyDict
          /\ (result'.kind = "skipped" /\ (result' # result \/ cycles' # cycles))
               => result'.data = IF last_raw = EmptyDict
                                 THEN [k \in SnapshotFields |-> NoneVal]
                                 ELSE from_dict(last_raw)]_vars

\* a connection failure after a successful cycle was answered with the
\* snapshot of that cycle, its battery level included
C36_Witness ==
    /\ pc = "idle"
    /\ cycles >= 1
    /\ result.kind = "stale"
    /\ ~last_poll_successful
    /\ result.data[K_BATTERY] # NoneVal

(* ------------------------- reset of the counter ----------------------- *)
\* a step of async_reset_brush_head
ResetStep == reset' # reset

\* C37: async_reset_brush_head sets the software counter to 0 and saves the
\* store only after the 020F write went through; when the device is not
\* found, the connection fails or the write fails, the error leaves the call,
\* the counter and the stored record are as before, and no connection of the
\* reset is left open.  No step of the reset changes last_session_ts, the
\* hardware latch or the snapshot.
C37_ResetOnlyAfterWrite ==
    [][ResetStep =>
         /\ UNCHANGED <<last_session_ts, brush_head_hw_supported, last_raw, result>>
         /\ (brush_head_sw_count' # brush_head_sw_count \/ store' # store)
               => /\ reset.pc = "finally"
                  /\ reset.exc = "none"
         /\ (reset.pc = "finally" /\ reset.exc = "none")
               => /\ brush_head_sw_count' = 0
                  /\ reset'.exc \in {"done", "save"}
                  /\ reset'.exc = "done"
                        => store' = SavedRecord(last_session_ts, 0,
                                                brush_head_hw_supported)
         /\ (reset.pc = "finally" /\ reset.exc # "none")
               => reset'.exc = reset.exc
         /\ reset'.exc \in {"connect", "write"}
               => UNCHANGED <<brush_head_sw_count, store>>
         /\ reset'.pc = "idle" => ~reset'.connected
         /\ (store_loaded /\ store.present /\ store'.present)
               => store'.last_session_ts = store.last_session_ts]_vars

\* a reset whose write failed has returned: the counter loaded from the store
\* is still there and the reset's connection is closed
C37_Witness ==
    /\ scenario = "reset"
    /\ reset.pc = "idle"
    /\ reset.exc = "write"
    /\ ~reset.connected
    /\ store_loaded
    /\ brush_head_sw_count > 0
    /\ store.present
    /\ store.brush_head_count = brush_head_sw_count

(* ---------------------------- the file handler ------------------------ *)
\* C38: at most one rotating file handler is attached to the integration's
\* logger at any time, whatever the interleaving of the entries' setups, and
\* when the last loaded entry has been unloaded no handler is attached.
C38_AtMostOneHandler ==
    /\ [](Cardinality(hass.handlers) <= 1)
    /\ [][(hass.entries # {} /\ hass'.entries = {}) => hass'.handlers = {}]_vars
====
